---- MODULE Spec2Model ----
(***************************************************************************)
(* OpenExtract: template-driven extraction of typed records from document  *)
(* text.  The module models src/src/openextract: utils.py (type coercion), *)
(* template_loader.py (the template catalog) and extractor.py (extract,    *)
(* extract_batch and the DOL decoder merge).                               *)
(*                                                                         *)
(* Strings are sequences of one-character strings, so that parsing and     *)
(* formatting are computed character by character as the code does.        *)
(* Python values are records [t, s, n, e]: t is the Python type, s the     *)
(* characters of a str, and n * 10^e the value of an int or a float.       *)
(***************************************************************************)
EXTENDS Integers, Sequences, FiniteSets, TLC

(***************************************************************************)
(* Bounds of the model.                                                    *)
(***************************************************************************)
MaxLen == 3

(***************************************************************************)
(* Python values.                                                          *)
(***************************************************************************)
None == [t |-> "none", s |-> <<>>, n |-> 0, e |-> 0]

Str(chars) == [t |-> "str", s |-> chars, n |-> 0, e |-> 0]

Bool(b) == [t |-> "bool", s |-> <<>>, n |-> IF b THEN 1 ELSE 0, e |-> 0]

RECURSIVE Norm(_, _)
Norm(m, e) ==
    IF m = 0 THEN <<0, 0>>
    ELSE IF m % 10 = 0 THEN Norm(m \div 10, e + 1)
    ELSE <<m, e>>

Num(tag, m, e) == [t |-> tag, s |-> <<>>, n |-> Norm(m, e)[1], e |-> Norm(m, e)[2]]

FloatVal(m, e) == Num("float", m, e)

IntVal(m, e) == Num("int", m, e)

Inf(neg) == [t |-> "float_inf", s |-> <<>>, n |-> IF neg THEN -1 ELSE 1, e |-> 0]

NaN == [t |-> "float_nan", s |-> <<>>, n |-> 0, e |-> 0]

\* Python truthiness of a value ("if value", "if not value").
Truthy(v) ==
    CASE v.t = "none" -> FALSE
      [] v.t = "str" -> v.s # <<>>
      [] v.t = "bool" -> v.n = 1
      [] v.t \in {"int", "float"} -> v.n # 0
      [] OTHER -> TRUE

\* The outcome of a call: a returned value, or the exception that left it.
Returned(v) == [raised |-> "none", val |-> v]

Raised(exc) == [raised |-> exc, val |-> None]

(***************************************************************************)
(* Characters and strings.                                                 *)
(***************************************************************************)
Digits == {"0", "1", "2", "3", "4", "5", "6", "7", "8", "9"}

DigitVal(c) ==
    CASE c = "0" -> 0 [] c = "1" -> 1 [] c = "2" -> 2 [] c = "3" -> 3
      [] c = "4" -> 4 [] c = "5" -> 5 [] c = "6" -> 6 [] c = "7" -> 7
      [] c = "8" -> 8 [] c = "9" -> 9

DigitChar(d) == <<"0", "1", "2", "3", "4", "5", "6", "7", "8", "9">>[d + 1]

\* the characters the regex class \s and str.strip() treat as whitespace
Whitespace == {" ", "\n", "\t"}

UpperCase ==
    << "A", "B", "C", "D", "E", "F", "G", "H", "I", "J", "K", "L", "M",
       "N", "O", "P", "Q", "R", "S", "T", "U", "V", "W", "X", "Y", "Z" >>

LowerCase ==
    << "a", "b", "c", "d", "e", "f", "g", "h", "i", "j", "k", "l", "m",
       "n", "o", "p", "q", "r", "s", "t", "u", "v", "w", "x", "y", "z" >>

Lower(c) ==
    IF \E i \in 1..26 : UpperCase[i] = c
    THEN LowerCase[CHOOSE i \in 1..26 : UpperCase[i] = c]
    ELSE c

LowerStr(s) == [i \in 1..Len(s) |-> Lower(s[i])]

Drop(s, k) == SubSeq(s, k + 1, Len(s))

Take(s, k) == SubSeq(s, 1, k)

IsDigits(s) == Len(s) > 0 /\ \A i \in 1..Len(s) : s[i] \in Digits

RECURSIVE DigitsVal(_)
DigitsVal(s) ==
    IF s = <<>> THEN 0
    ELSE 10 * DigitsVal(Take(s, Len(s) - 1)) + DigitVal(s[Len(s)])

RECURSIVE Pow10(_)
Pow10(k) == IF k = 0 THEN 1 ELSE 10 * Pow10(k - 1)

RECURSIVE NumDigits(_)
NumDigits(m) == IF m < 10 THEN 1 ELSE 1 + NumDigits(m \div 10)

Abs(x) == IF x < 0 THEN -x ELSE x

\* re.sub(r'[<set>]', '', s)
RemoveChars(s, set) == SelectSeq(s, LAMBDA c : c \notin set)

RECURSIVE LStrip(_)
LStrip(s) == IF s # <<>> /\ Head(s) \in Whitespace THEN LStrip(Tail(s)) ELSE s

RECURSIVE RStrip(_)
RStrip(s) ==
    IF s # <<>> /\ s[Len(s)] \in Whitespace THEN RStrip(Take(s, Len(s) - 1)) ELSE s

Strip(s) == RStrip(LStrip(s))

\* re.sub(r'\s+', ' ', s): every run of whitespace becomes one space
RECURSIVE CollapseWs(_)
CollapseWs(s) ==
    IF s = <<>> THEN <<>>
    ELSE IF Head(s) \in Whitespace
         THEN <<" ">> \o CollapseWs(LStrip(s))
         ELSE <<Head(s)>> \o CollapseWs(Tail(s))

\* position of the first character of s that lies in set, 0 when there is none
RECURSIVE FirstIn(_, _, _)
FirstIn(s, set, i) ==
    IF i > Len(s) THEN 0
    ELSE IF s[i] \in set THEN i
    ELSE FirstIn(s, set, i + 1)

(***************************************************************************)
(* Python's float(str) and int(float).                                     *)
(***************************************************************************)
\* The overflow threshold of an IEEE double, as a decimal order of magnitude.
MaxFloatOrder == 308

MinFloatOrder == 324

\* digits [ "." digits ] with at least one digit
IsMantissa(s) ==
    LET dot == FirstIn(s, {"."}, 1)
        ip == IF dot = 0 THEN s ELSE Take(s, dot - 1)
        fp == IF dot = 0 THEN <<>> ELSE Drop(s, dot)
    IN  /\ \A i \in 1..Len(ip) : ip[i] \in Digits
        /\ \A i \in 1..Len(fp) : fp[i] \in Digits
        /\ Len(ip) + Len(fp) > 0

IsExponent(s) ==
    IF s # <<>> /\ Head(s) \in {"+", "-"} THEN IsDigits(Tail(s)) ELSE IsDigits(s)

\* the value of a decimal literal with digits m and exponent e: a literal
\* too large for a double is infinity, one too small is zero
FloatScaled(neg, m, e) ==
    IF m = 0 \/ NumDigits(m) - 1 + e < -MinFloatOrder THEN FloatVal(0, 0)
    ELSE IF NumDigits(m) - 1 + e > MaxFloatOrder THEN Inf(neg)
    ELSE FloatVal(IF neg THEN -m ELSE m, e)

IntegerPart(mant, dot) == IF dot = 0 THEN mant ELSE Take(mant, dot - 1)

FractionPart(mant, dot) == IF dot = 0 THEN <<>> ELSE Drop(mant, dot)

MantissaDigits(mant, dot) == DigitsVal(IntegerPart(mant, dot) \o FractionPart(mant, dot))

ExponentVal(expo) ==
    IF expo = <<>> THEN 0
    ELSE IF Head(expo) = "-" THEN -DigitsVal(Tail(expo))
    ELSE IF Head(expo) = "+" THEN DigitsVal(Tail(expo))
    ELSE DigitsVal(expo)

FloatParts(neg, mant, dot, expo, has_exp) ==
    IF ~IsMantissa(mant) \/ (has_exp /\ ~IsExponent(expo)) THEN Raised("ValueError")
    ELSE Returned(FloatScaled(neg, MantissaDigits(mant, dot),
                              ExponentVal(expo) - Len(FractionPart(mant, dot))))

FloatMantissa(neg, mant, expo, has_exp) ==
    FloatParts(neg, mant, FirstIn(mant, {"."}, 1), expo, has_exp)

FloatDecimal(neg, body, epos) ==
    IF epos = 0 THEN FloatMantissa(neg, body, <<>>, FALSE)
    ELSE FloatMantissa(neg, Take(body, epos - 1), Drop(body, epos), TRUE)

FloatBody(neg, body) ==
    IF body \in {<<"i", "n", "f">>, <<"i", "n", "f", "i", "n", "i", "t", "y">>}
    THEN Returned(Inf(neg))
    ELSE IF body = <<"n", "a", "n">> THEN Returned(NaN)
    ELSE FloatDecimal(neg, body, FirstIn(body, {"e"}, 1))

FloatStripped(st) ==
    IF st # <<>> /\ Head(st) \in {"+", "-"}
    THEN FloatBody(Head(st) = "-", LowerStr(Tail(st)))
    ELSE FloatBody(FALSE, LowerStr(st))

\* float(s): surrounding whitespace is ignored; a sign, then inf, infinity,
\* nan (any case) or a decimal literal with an optional exponent.  A literal
\* too large for a double is infinity, never an error.  ValueError otherwise.
float(s) == FloatStripped(Strip(s))

\* int(f): truncation toward zero; OverflowError for an infinity and
\* ValueError for a NaN.
int(f) ==
    CASE f.t = "float_inf" -> Raised("OverflowError")
      [] f.t = "float_nan" -> Raised("ValueError")
      [] f.e >= 0 -> Returned(IntVal(f.n, f.e))
      [] -f.e >= NumDigits(Abs(f.n)) -> Returned(IntVal(0, 0))
      [] OTHER ->
            LET q == Abs(f.n) \div Pow10(-f.e)
            IN  Returned(IntVal(IF f.n < 0 THEN -q ELSE q, 0))

(***************************************************************************)
(* utils.py: parsing of raw strings.                                       *)
(***************************************************************************)
CurrencySymbols == {"$", ","} \cup Whitespace

\* except (ValueError, TypeError): return None
ExceptValueError(r) ==
    IF r.raised \in {"ValueError", "TypeError"} THEN Returned(None) ELSE r

\* a value in parentheses is negative
Parenthesised(c0) ==
    IF c0 # <<>> /\ Head(c0) = "(" /\ c0[Len(c0)] = ")"
    THEN <<"-">> \o SubSeq(c0, 2, Len(c0) - 1)
    ELSE c0

parse_currency(value) ==
    IF ~Truthy(value) THEN Returned(None)
    ELSE ExceptValueError(float(Parenthesised(RemoveChars(value.s, CurrencySymbols))))

\* int(float(cleaned)): int is not reached when float raises
IntOfFloat(f) == IF f.raised = "none" THEN int(f.val) ELSE f

parse_integer(value) ==
    IF ~Truthy(value) THEN Returned(None)
    ELSE ExceptValueError(
             IntOfFloat(float(RemoveChars(value.s, {","} \cup Whitespace))))

parse_percentage(value) ==
    IF ~Truthy(value) THEN Returned(None)
    ELSE ExceptValueError(float(RemoveChars(value.s, {"%"} \cup Whitespace)))

clean_text(text) ==
    IF ~Truthy(text) THEN Str(<<>>) ELSE Str(Strip(CollapseWs(text.s)))

(***************************************************************************)
(* datetime.strptime and strftime, as parse_date and format_date use them. *)
(* A format is a sequence of directives ("%m", "%d", "%Y", "%y", "%B",     *)
(* "%b") and literal characters; a space in a format matches one or more   *)
(* whitespace characters.                                                  *)
(***************************************************************************)
MonthNames ==
    << <<"j","a","n","u","a","r","y">>, <<"f","e","b","r","u","a","r","y">>,
       <<"m","a","r","c","h">>, <<"a","p","r","i","l">>, <<"m","a","y">>,
       <<"j","u","n","e">>, <<"j","u","l","y">>, <<"a","u","g","u","s","t">>,
       <<"s","e","p","t","e","m","b","e","r">>, <<"o","c","t","o","b","e","r">>,
       <<"n","o","v","e","m","b","e","r">>, <<"d","e","c","e","m","b","e","r">> >>

IsPrefix(p, s) == Len(p) <= Len(s) /\ Take(s, Len(p)) = p

\* the lengths k and values v with which a directive can match a prefix of s
DirectiveMatches(f, s) ==
    CASE f = "%m" ->
            (IF Len(s) >= 1 /\ s[1] \in Digits \ {"0"}
             THEN {<<1, DigitVal(s[1])>>} ELSE {})
            \cup
            (IF /\ Len(s) >= 2
                /\ \/ s[1] = "1" /\ s[2] \in {"0", "1", "2"}
                   \/ s[1] = "0" /\ s[2] \in Digits \ {"0"}
             THEN {<<2, DigitsVal(Take(s, 2))>>} ELSE {})
      [] f = "%d" ->
            (IF Len(s) >= 1 /\ s[1] \in Digits \ {"0"}
             THEN {<<1, DigitVal(s[1])>>} ELSE {})
            \cup
            (IF /\ Len(s) >= 2
                /\ \/ s[1] = "3" /\ s[2] \in {"0", "1"}
                   \/ s[1] \in {"1", "2"} /\ s[2] \in Digits
                   \/ s[1] = "0" /\ s[2] \in Digits \ {"0"}
             THEN {<<2, DigitsVal(Take(s, 2))>>} ELSE {})
            \cup
            (IF Len(s) >= 2 /\ s[1] = " " /\ s[2] \in Digits \ {"0"}
             THEN {<<2, DigitVal(s[2])>>} ELSE {})
      [] f = "%Y" ->
            IF Len(s) >= 4 /\ IsDigits(Take(s, 4))
            THEN {<<4, DigitsVal(Take(s, 4))>>} ELSE {}
      [] f = "%y" ->
            IF Len(s) >= 2 /\ IsDigits(Take(s, 2))
            THEN {<<2, IF DigitsVal(Take(s, 2)) <= 68
                       THEN 2000 + DigitsVal(Take(s, 2))
                       ELSE 1900 + DigitsVal(Take(s, 2))>>}
            ELSE {}
      [] f = "%B" ->
            {<<Len(MonthNames[i]), i>> :
                i \in {j \in 1..12 : IsPrefix(MonthNames[j], LowerStr(s))}}
      [] f = "%b" ->
            {<<3, i>> :
                i \in {j \in 1..12 : IsPrefix(Take(MonthNames[j], 3), LowerStr(s))}}
      [] f = " " ->
            {<<k, 0>> : k \in {j \in 1..Len(s) : \A i \in 1..j : s[i] \in Whitespace}}
      [] OTHER ->
            IF Len(s) >= 1 /\ Lower(s[1]) = Lower(f) THEN {<<1, 0>>} ELSE {}

SetField(acc, f, v) ==
    CASE f = "%m" \/ f = "%B" \/ f = "%b" -> [acc EXCEPT !.m = v]
      [] f = "%d" -> [acc EXCEPT !.d = v]
      [] f = "%Y" \/ f = "%y" -> [acc EXCEPT !.y = v]
      [] OTHER -> acc

\* every way the whole of s matches the whole of fmt
RECURSIVE Strp(_, _, _)
Strp(fmt, s, acc) ==
    IF fmt = <<>> THEN (IF s = <<>> THEN {acc} ELSE {})
    ELSE UNION { Strp(Tail(fmt), Drop(s, kv[1]), SetField(acc, Head(fmt), kv[2])) :
                 kv \in DirectiveMatches(Head(fmt), s) }

IsLeap(y) == (y % 4 = 0 /\ y % 100 # 0) \/ y % 400 = 0

DaysInMonth(y, m) ==
    IF m = 2 THEN (IF IsLeap(y) THEN 29 ELSE 28)
    ELSE IF m \in {4, 6, 9, 11} THEN 30 ELSE 31

NoDate == [ok |-> FALSE, y |-> 0, m |-> 0, d |-> 0]

\* datetime.strptime(s, fmt): ok = FALSE stands for its ValueError (no match,
\* unconverted data, or a day or year that is no calendar date).
CalendarDates(ps) == {p \in ps : p.y >= 1 /\ p.d <= DaysInMonth(p.y, p.m)}

OneOf(good) == IF good = {} THEN NoDate ELSE CHOOSE p \in good : TRUE

strptime(s, fmt) ==
    OneOf(CalendarDates(Strp(fmt, s, [ok |-> TRUE, y |-> 0, m |-> 0, d |-> 0])))

RECURSIVE NatToStr(_)
NatToStr(k) ==
    IF k < 10 THEN <<DigitChar(k)>>
    ELSE NatToStr(k \div 10) \o <<DigitChar(k % 10)>>

Pad2(k) == IF k < 10 THEN <<"0", DigitChar(k)>> ELSE NatToStr(k)

\* one strftime directive; %Y is not zero-padded by the C library on Linux
StrftimeDirective(f, dt) ==
    CASE f = "%Y" -> NatToStr(dt.y)
      [] f = "%m" -> Pad2(dt.m)
      [] f = "%d" -> Pad2(dt.d)
      [] OTHER -> <<f>>

RECURSIVE strftime(_, _)
strftime(dt, fmt) ==
    IF fmt = <<>> THEN <<>>
    ELSE StrftimeDirective(Head(fmt), dt) \o strftime(dt, Tail(fmt))

IsoFormat == <<"%Y", "-", "%m", "-", "%d">>

\* the default input_formats of parse_date, in the order they are tried
input_formats ==
    << <<"%m", "/", "%d", "/", "%Y">>,
       <<"%m", "-", "%d", "-", "%Y">>,
       <<"%m", "/", "%d", "/", "%y">>,
       <<"%m", "-", "%d", "-", "%y">>,
       <<"%Y", "-", "%m", "-", "%d">>,
       <<"%Y", "/", "%m", "/", "%d">>,
       <<"%d", "/", "%m", "/", "%Y">>,
       <<"%d", "-", "%m", "-", "%Y">>,
       <<"%B", " ", "%d", ",", " ", "%Y">>,
       <<"%b", " ", "%d", ",", " ", "%Y">>,
       <<"%d", " ", "%B", " ", "%Y">>,
       <<"%d", " ", "%b", " ", "%Y">> >>

RECURSIVE TryFormats(_, _)
TryFormat(cleaned, i, dt) ==
    IF dt.ok THEN Str(strftime(dt, IsoFormat)) ELSE TryFormats(cleaned, i + 1)

TryFormats(cleaned, i) ==
    IF i > Len(input_formats) THEN None
    ELSE TryFormat(cleaned, i, strptime(cleaned, input_formats[i]))

parse_date(value) ==
    IF ~Truthy(value) THEN Returned(None)
    ELSE Returned(TryFormats(Strip(value.s), 1))

Truthies ==
    { <<"t", "r", "u", "e">>, <<"y", "e", "s">>, <<"1">>, <<"x">>,
      <<"c", "h", "e", "c", "k", "e", "d">> }

DataTypes ==
    {"string", "integer", "currency", "date", "boolean", "decimal", "percentage"}

coerce_value(value, data_type) ==
    IF value.t = "none" THEN Returned(None)
    ELSE CASE data_type = "string" -> Returned(clean_text(value))
           [] data_type = "integer" -> parse_integer(value)
           [] data_type \in {"currency", "decimal"} -> parse_currency(value)
           [] data_type = "percentage" -> parse_percentage(value)
           [] data_type = "date" -> parse_date(value)
           [] data_type = "boolean" -> Returned(Bool(LowerStr(value.s) \in Truthies))
           [] OTHER -> Returned(clean_text(value))

(***************************************************************************)
(* Python dicts are functions whose domain is the set of keys present.     *)
(***************************************************************************)
Get(d, k, default) == IF k \in DOMAIN d THEN d[k] ELSE default

EmptyDict == [k \in {} |-> None]

\* d[k] = v
Put(d, k, v) == [x \in DOMAIN d \cup {k} |-> IF x = k THEN v ELSE d[x]]

\* str < str in Python: by code point
CodeOrder ==
    << "\t", "\n", " ", "$", "%", "(", ")", "+", ",", "-", ".", "/",
       "0", "1", "2", "3", "4", "5", "6", "7", "8", "9" >>
    \o UpperCase \o <<"_">> \o LowerCase

CharCode(c) == CHOOSE i \in 1..Len(CodeOrder) : CodeOrder[i] = c

RECURSIVE StrLess(_, _)
StrLess(a, b) ==
    IF b = <<>> THEN FALSE
    ELSE IF a = <<>> THEN TRUE
    ELSE IF Head(a) = Head(b) THEN StrLess(Tail(a), Tail(b))
    ELSE CharCode(Head(a)) < CharCode(Head(b))

(***************************************************************************)
(* template_loader.py: the template catalog.                               *)
(*                                                                         *)
(* A file of the templates directory is [name, category, json]: category   *)
(* is the directory of the file relative to the templates directory and    *)
(* json is what json.load makes of the file: [kind, obj, members], with    *)
(* kind "invalid" when the text is no JSON (json.JSONDecodeError),          *)
(* "not_utf8" when the bytes are no UTF-8 text (UnicodeDecodeError), obj   *)
(* the dict of an object, and members the strings x for which "x in value" *)
(* holds of an array or a string.                                          *)
(***************************************************************************)
JsonObject(obj) == [kind |-> "object", obj |-> obj, members |-> DOMAIN obj]

JsonOther(kind, members) == [kind |-> kind, obj |-> EmptyDict, members |-> members]

\* "key in template" (template_loader.py line 46): TypeError on a number,
\* a boolean or null
KeyIn(key, json) ==
    IF json.kind \in {"object", "array", "string"}
    THEN [raised |-> "none", val |-> key \in json.members]
    ELSE [raised |-> "TypeError", val |-> FALSE]

\* the keys a dict can be indexed by: a list or a dict is unhashable
Hashable(v) == v.t \notin {"list", "dict"}

\* _templates is an insertion-ordered dict: a sequence of [key, value],
\* no key twice; assigning to a key that is present keeps its position
DictKeys(d) == {d[i].key : i \in 1..Len(d)}

DictSet(d, k, v) ==
    IF k \in DictKeys(d)
    THEN [i \in 1..Len(d) |-> IF d[i].key = k THEN [key |-> k, value |-> v] ELSE d[i]]
    ELSE Append(d, [key |-> k, value |-> v])

DictGet(d, k) ==
    IF k \in DictKeys(d)
    THEN (d[CHOOSE i \in 1..Len(d) : d[i].key = k]).value
    ELSE EmptyDict

\* one iteration of the loop of _load_templates over the file f
LoadFile(templates, f) ==
    IF f.name[1] = "_" THEN [raised |-> "none", templates |-> templates]
    ELSE IF f.json.kind = "invalid"
    THEN [raised |-> "none", templates |-> templates]
    ELSE IF f.json.kind = "not_utf8"
    THEN [raised |-> "UnicodeDecodeError", templates |-> templates]
    ELSE LET hasId == KeyIn("template_id", f.json)
             hasFields == KeyIn("fields", f.json)
         IN  IF hasId.raised # "none"
             THEN [raised |-> hasId.raised, templates |-> templates]
             ELSE IF ~(hasId.val /\ hasFields.val)
             THEN [raised |-> "none", templates |-> templates]
             ELSE IF f.json.kind # "object" \/ ~Hashable(f.json.obj.template_id)
             THEN [raised |-> "TypeError", templates |-> templates]
             ELSE [raised |-> "none",
                   templates |->
                       DictSet(templates, f.json.obj.template_id,
                               Put(Put(f.json.obj, "_category", Str(f.category)),
                                   "_file_path", Str(f.category \o <<"/">> \o f.name)))]

\* _load_templates: the files in discovery order; an exception that the
\* handler of lines 53-55 does not catch ends the loop and leaves the call
RECURSIVE LoadFiles(_, _, _)
LoadFiles(templates, files, i) ==
    IF i > Len(files) THEN [raised |-> "none", templates |-> templates]
    ELSE LET r == LoadFile(templates, files[i])
         IN  IF r.raised # "none" THEN r
             ELSE LoadFiles(r.templates, files, i + 1)

_load_templates(templates, dir) ==
    IF ~dir.exists THEN [raised |-> "FileNotFoundError", templates |-> templates]
    ELSE LoadFiles(templates, dir.files, 1)

get_template(templates, template_id) == DictGet(templates, template_id)

\* the summary of one template in list_templates
TemplateSummary(key, template) ==
    [id |-> key,
     name |-> Get(template, "template_name", key),
     category |-> Get(template, "_category", Str(<<"o", "t", "h", "e", "r">>))]

SummaryLess(a, b) ==
    \/ StrLess(a.category.s, b.category.s)
    \/ a.category.s = b.category.s /\ StrLess(a.name.s, b.name.s)

\* list.sort(key=...): stable, by insertion of each element after the
\* elements that are not greater
RECURSIVE InsertSorted(_, _)
InsertSorted(sorted, x) ==
    IF sorted = <<>> THEN <<x>>
    ELSE IF SummaryLess(x, Head(sorted)) THEN <<x>> \o sorted
    ELSE <<Head(sorted)>> \o InsertSorted(Tail(sorted), x)

RECURSIVE SortSummaries(_, _)
SortSummaries(sorted, rest) ==
    IF rest = <<>> THEN sorted
    ELSE SortSummaries(InsertSorted(sorted, Head(rest)), Tail(rest))

list_templates(templates) ==
    SortSummaries(<<>>, [i \in 1..Len(templates) |->
                            TemplateSummary(templates[i].key, templates[i].value)])

\* q in s, for strings
IsInfix(q, s) == \E i \in 0..Len(s) : IsPrefix(q, Drop(s, i))

\* _template_info(template)
_template_info(template) ==
    [id |-> Get(template, "template_id", Str(<<>>)),
     name |-> Get(template, "template_name", Str(<<>>)),
     description |-> Get(template, "description", Str(<<>>)),
     category |-> Get(template, "_category", Str(<<"o", "t", "h", "e", "r">>)),
     document_type |-> Get(template, "document_type", Str(<<"o", "t", "h", "e", "r">>))]

\* whether the query is found in the name, the description, a tag or the
\* identifier of the template
Matches(query_lower, template_id, template) ==
    \/ IsInfix(query_lower, LowerStr(Get(template, "template_name", Str(<<>>)).s))
    \/ IsInfix(query_lower, LowerStr(Get(template, "description", Str(<<>>)).s))
    \/ \E i \in 1..Len(Get(template, "tags", <<>>)) :
           IsInfix(query_lower, LowerStr(template.tags[i].s))
    \/ IsInfix(query_lower, LowerStr(template_id.s))

RECURSIVE SearchFrom(_, _, _, _)
SearchFrom(templates, query_lower, i, results) ==
    IF i > Len(templates) THEN results
    ELSE SearchFrom(templates, query_lower, i + 1,
                    IF Matches(query_lower, templates[i].key, templates[i].value)
                    THEN Append(results, _template_info(templates[i].value))
                    ELSE results)

search_templates(templates, query) == SearchFrom(templates, LowerStr(query), 1, <<>>)

\* variant: a reload that keeps what was loaded
KeepAll(templates) == templates

\* self._templates.clear()
clear(templates) == <<>>

\* variant: a lookup that empties the catalog
Emptied(templates) == <<>>

\* the catalog after a method that only reads it: dict.get, .items() and
\* .values() leave the dict as it is, and no method assigns to a template
AfterRead(templates) == templates


(***************************************************************************)
(* template_loader.py: validate_template.  An error message is a record of *)
(* its wording (error), the index of the field it speaks of (-1 for the    *)
(* template itself) and the name it quotes.  The templates validated here  *)
(* are JSON objects whose identifier and version are strings and whose     *)
(* fields are a list of objects.                                           *)
(***************************************************************************)
Err(error, index, what) == [error |-> error, index |-> index, what |-> what]

Letters == {LowerCase[i] : i \in 1..26} \cup {UpperCase[i] : i \in 1..26}

\* str.isalnum(): at least one character, all of them letters or digits
IsAlnum(s) == Len(s) > 0 /\ \A i \in 1..Len(s) : s[i] \in Letters \cup Digits

\* str.split(sep): the pieces between the occurrences of sep
RECURSIVE Split(_, _, _, _)
Split(s, sep, i, piece) ==
    IF i > Len(s) THEN <<piece>>
    ELSE IF s[i] = sep THEN <<piece>> \o Split(s, sep, i + 1, <<>>)
    ELSE Split(s, sep, i + 1, Append(piece, s[i]))

\* the "for field in required_fields: if field not in template" loops
MissingErrors(error, index, required, d) ==
    SelectSeq([i \in 1..Len(required) |-> Err(error, index, required[i])],
              LAMBDA e : e.what \notin DOMAIN d)

TemplateRequired ==
    << "template_id", "template_name", "description", "document_type",
       "version", "fields", "output_format" >>

FieldRequired ==
    <<"field_name", "display_name", "data_type", "required", "extraction_method">>

valid_types ==
    {"string", "integer", "currency", "date", "boolean", "decimal", "percentage"}

valid_methods == {"regex", "coordinates", "table", "keyword_proximity"}

\* the field names of the model that field_name.replace('_', '').isalnum()
\* rejects: one with a space, one with a hyphen
NotSnakeCase == {"plan year", "plan-year"}

\* "if <cond>: errors.append(<err>)"
When(cond, err) == IF cond THEN <<err>> ELSE <<>>

IdErrors(template_id) ==
    When(Truthy(template_id) /\ ~IsAlnum(RemoveChars(template_id.s, {"-", "_"})),
         Err("template_id must contain only lowercase letters, numbers, and hyphens", -1, "template_id"))

VersionErrors(version, parts) ==
    When(Truthy(version) /\ (Len(parts) # 3 \/ ~(\A i \in 1..Len(parts) : IsDigits(parts[i]))),
         Err("version must be in semantic format", -1, "version"))

FieldChecks(index, field, field_name, data_type, method) ==
    When(field_name # "" /\ field_name \in NotSnakeCase,
         Err("field_name must be snake_case", index, field_name))
    \o When(data_type # "" /\ data_type \notin valid_types,
            Err("Invalid data_type", index, data_type))
    \o When(method # "" /\ method \notin valid_methods,
            Err("Invalid extraction_method", index, method))
    \o When(method = "regex" /\ "regex_pattern" \notin DOMAIN field,
            Err("regex extraction_method requires regex_pattern", index, "regex_pattern"))
    \o When(method = "coordinates" /\ "coordinates" \notin DOMAIN field,
            Err("coordinates extraction_method requires coordinates object", index, "coordinates"))

\* _validate_field(field, index); index counts from 0
_validate_field(field, index) ==
    MissingErrors("Missing required property", index, FieldRequired, field)
        \o FieldChecks(index, field, Get(field, "field_name", ""),
                       Get(field, "data_type", ""), Get(field, "extraction_method", ""))

RECURSIVE FieldsErrors(_, _)
FieldsErrors(fields, i) ==
    IF i > Len(fields) THEN <<>>
    ELSE _validate_field(fields[i], i - 1) \o FieldsErrors(fields, i + 1)

TemplateChecks(template, template_id, version, fields, output_format) ==
    IdErrors(template_id)
        \o VersionErrors(version, Split(version.s, ".", 1, <<>>))
        \o FieldsErrors(fields, 1)
        \o When("csv_headers" \notin DOMAIN output_format,
                Err("output_format must include csv_headers", -1, "csv_headers"))

validate_template(template) ==
    MissingErrors("Missing required field", -1, TemplateRequired, template)
        \o TemplateChecks(template, Get(template, "template_id", Str(<<>>)),
                          Get(template, "version", Str(<<>>)),
                          Get(template, "fields", <<>>),
                          Get(template, "output_format", EmptyDict))


(***************************************************************************)
(* The templates and the files the model loads.  A regex pattern is an     *)
(* opaque name; what it captures in a text is part of the text (below).    *)
(***************************************************************************)
FieldDef(name, data_type, method, pattern, fallbacks) ==
    [field_name |-> name, display_name |-> name, data_type |-> data_type,
     required |-> TRUE, extraction_method |-> method,
     regex_pattern |-> pattern, fallback_patterns |-> fallbacks]

\* the fields of the DOL templates: a date, an integer, a currency amount
DolFields ==
    << FieldDef("plan_year_begin", "date", "regex", "p_date", <<>>),
       FieldDef("total_participants_boy", "integer", "regex", "p_boy", <<"p_boy2">>),
       [FieldDef("total_assets_boy", "currency", "regex", "p_assets", <<>>)
            EXCEPT !.required = FALSE] >>

OtherFields ==
    << FieldDef("wages", "currency", "regex", "p_assets", <<>>),
       [field_name |-> "employer", display_name |-> "employer",
        data_type |-> "string", required |-> FALSE,
        extraction_method |-> "keyword_proximity",
        keywords |-> <<"k_employer">>, default_value |-> Str(<<"n", "/", "a">>)] >>

Id5500 == <<"f", "o", "r", "m", "-", "5", "5", "0", "0">>
Id5500SF == <<"f", "o", "r", "m", "-", "5", "5", "0", "0", "-", "s", "f">>
IdW2 == <<"w", "2">>
IdUnknown == <<"n", "o", "n", "e", "x", "i", "s", "t", "e", "n", "t">>
Category401k == <<"4", "0", "1", "k">>
CategoryTax == <<"t", "a", "x">>
CategoryMisc == <<"m", "i", "s", "c">>
Version100 == <<"1", ".", "0", ".", "0">>
DateFormatUS == <<"M", "M", "/", "D", "D", "/", "Y", "Y", "Y", "Y">>

Template(id, fields, output_format) ==
    [template_id |-> Str(id), template_name |-> Str(id),
     description |-> Str(<<"d">>), document_type |-> Str(<<"f">>),
     version |-> Str(Version100), fields |-> fields,
     output_format |-> output_format]

Template5500 ==
    Template(Id5500, DolFields,
             [csv_headers |-> <<"plan_year_begin", "total_participants_boy",
                                "total_assets_boy">>,
              date_format |-> Str(DateFormatUS)])

Template5500SF ==
    Template(Id5500SF, DolFields,
             [csv_headers |-> <<"plan_year_begin", "total_participants_boy">>,
              date_format |-> Str(DateFormatUS),
              include_line_codes |-> TRUE])

TemplateW2 ==
    Template(IdW2, OtherFields, [csv_headers |-> <<"wages", "employer">>])

\* further well-formed templates t1, t2, ... of one category
FillerId(i) == <<"t">> \o NatToStr(i)

TemplateFiller(i) == Template(FillerId(i), OtherFields, [csv_headers |-> <<"wages">>])

File(name, category, json) == [name |-> name, category |-> category, json |-> json]

File5500 == File(<<"a">>, Category401k, JsonObject(Template5500))

File5500SF == File(<<"b">>, Category401k, JsonObject(Template5500SF))

FileW2 == File(<<"c">>, CategoryTax, JsonObject(TemplateW2))

FileFiller(i) == File(<<"f">> \o NatToStr(i), CategoryMisc, JsonObject(TemplateFiller(i)))

\* a second file with the identifier of form-5500
File5500Again ==
    File(<<"d">>, CategoryTax,
         JsonObject([Template5500 EXCEPT !.version = Str(<<"2", ".", "0", ".", "0">>)]))

NoIdObject == [k \in DOMAIN Template5500 \ {"template_id"} |-> Template5500[k]]

NoFieldsObject == [k \in DOMAIN TemplateW2 \ {"fields"} |-> TemplateW2[k]]

\* the malformed files
FileInvalidJson == File(<<"g">>, CategoryTax, JsonOther("invalid", {}))

FileNotUtf8 == File(<<"h">>, CategoryTax, JsonOther("not_utf8", {}))

FileNull == File(<<"i">>, CategoryTax, JsonOther("null", {}))

FileNumber == File(<<"j">>, CategoryTax, JsonOther("number", {}))

FileArray == File(<<"k">>, CategoryTax, JsonOther("array", {"x"}))

FileArrayOfKeys == File(<<"l">>, CategoryTax, JsonOther("array", {"template_id", "fields"}))

FileString == File(<<"m">>, CategoryTax, JsonOther("string", {"x"}))

FileNoId == File(<<"n">>, Category401k, JsonObject(NoIdObject))

FileNoFields == File(<<"o">>, CategoryTax, JsonObject(NoFieldsObject))

FileListId ==
    File(<<"p">>, CategoryTax,
         JsonObject([TemplateW2 EXCEPT
                        !.template_id = [t |-> "list", s |-> <<>>, n |-> 0, e |-> 0]]))

\* an object the loader indexes although most of a template is missing
BareId == <<"b", "a", "r", "e">>

FileBare == File(<<"q">>, CategoryMisc, JsonObject([template_id |-> Str(BareId), fields |-> <<>>]))

\* a reserved name: the schema, which is no template
FileSchema == File(<<"_", "s">>, CategoryMisc, JsonOther("number", {}))

WellFormedFiles == {File5500, File5500SF, FileW2, File5500Again}

MalformedFiles ==
    {FileInvalidJson, FileNotUtf8, FileNull, FileNumber, FileArray, FileArrayOfKeys,
     FileString, FileNoId, FileNoFields, FileListId}

IncompleteFiles == {FileBare}

FilePool == WellFormedFiles \cup MalformedFiles \cup IncompleteFiles \cup {FileSchema}

(***************************************************************************)
(* utils.py: display formatting.                                           *)
(***************************************************************************)
\* format_map of format_date: a named layout and its strftime format
FormatOf(output_format) ==
    CASE output_format = <<"Y","Y","Y","Y","-","M","M","-","D","D">> ->
            <<"%Y", "-", "%m", "-", "%d">>
      [] output_format = <<"M","M","/","D","D","/","Y","Y","Y","Y">> ->
            <<"%m", "/", "%d", "/", "%Y">>
      [] output_format = <<"D","D","/","M","M","/","Y","Y","Y","Y">> ->
            <<"%d", "/", "%m", "/", "%Y">>
      [] output_format = <<"Y","Y","Y","Y","/","M","M","/","D","D">> ->
            <<"%Y", "/", "%m", "/", "%d">>
      [] output_format = <<"M","M","-","D","D","-","Y","Y","Y","Y">> ->
            <<"%m", "-", "%d", "-", "%Y">>
      [] output_format = <<"D","D","-","M","M","-","Y","Y","Y","Y">> ->
            <<"%d", "-", "%m", "-", "%Y">>
      [] OTHER -> <<"%Y", "-", "%m", "-", "%d">>

\* format_date(date_str, output_format): a date_str that is no ISO date is
\* returned as it is
Reformat(date_str, output_format, dt) ==
    IF dt.ok THEN Str(strftime(dt, FormatOf(output_format.s))) ELSE date_str

format_date(date_str, output_format) ==
    IF ~Truthy(date_str) THEN None
    ELSE Reformat(date_str, output_format, strptime(date_str.s, IsoFormat))

RECURSIVE Zeros(_)
Zeros(k) == IF k = 0 THEN <<>> ELSE <<"0">> \o Zeros(k - 1)

\* the digits of an integer with a comma before every group of three
RECURSIVE GroupThousands(_)
GroupThousands(digits) ==
    IF Len(digits) <= 3 THEN digits
    ELSE GroupThousands(Take(digits, Len(digits) - 3))
         \o <<",">> \o Drop(digits, Len(digits) - 3)

\* |n * 10^e| rounded to an integer, ties to even (e < 0)
RoundHalfEven(n, e) ==
    IF -e > NumDigits(Abs(n)) THEN 0
    ELSE LET p == Pow10(-e)
             q == Abs(n) \div p
             r == Abs(n) % p
         IN  IF 2 * r > p THEN q + 1
             ELSE IF 2 * r < p THEN q
             ELSE IF q % 2 = 0 THEN q ELSE q + 1

\* f"${value:,.0f}" of an int or a float
FormatCurrency(v) ==
    CASE v.t = "float_inf" ->
            Str(<<"$">> \o (IF v.n < 0 THEN <<"-">> ELSE <<>>) \o <<"i", "n", "f">>)
      [] v.t = "float_nan" -> Str(<<"$", "n", "a", "n">>)
      [] OTHER ->
            LET digits == IF v.e >= 0 THEN NatToStr(Abs(v.n)) \o Zeros(v.e)
                          ELSE NatToStr(RoundHalfEven(v.n, v.e))
            IN  Str(<<"$">> \o (IF v.n < 0 THEN <<"-">> ELSE <<>>)
                    \o GroupThousands(digits))

(***************************************************************************)
(* extractor.py: the generic field-extraction engine.                      *)
(*                                                                         *)
(* A text is the function from the patterns (and keywords) that match it   *)
(* to the group each captures: a pattern outside its domain finds nothing. *)
(***************************************************************************)
\* patterns that are no regular expression: re.search raises re.error
InvalidPatterns == {"p_bad"}

\* re.search(pattern, text): re.error for a pattern that does not compile,
\* else the captured group of the first match, None when nothing matches
re_search(pattern, text) ==
    IF pattern \in InvalidPatterns THEN Raised("re.error")
    ELSE Returned(Get(text, pattern, None))

\* variant: no except clause
NoExcept(r) == r

\* except re.error: pass
ExceptReError(r) == IF r.raised = "re.error" THEN Returned(None) ELSE r

extract_first_match(text, pattern) ==
    IF pattern = "" \/ DOMAIN text = {} THEN Returned(None)
    ELSE ExceptReError(re_search(pattern, text))

RECURSIVE FirstMatch(_, _, _, _)
\* "if value: return clean_text(value)", r the outcome of extract_first_match
TryMatch(text, patterns, i, default, r) ==
    IF r.raised # "none" THEN r
    ELSE IF Truthy(r.val) THEN Returned(clean_text(r.val))
    ELSE FirstMatch(text, patterns, i + 1, default)

FirstMatch(text, patterns, i, default) ==
    IF i > Len(patterns) THEN Returned(default)
    ELSE IF patterns[i] = "" THEN FirstMatch(text, patterns, i + 1, default)
    ELSE TryMatch(text, patterns, i, default, extract_first_match(text, patterns[i]))

\* variant: the fallback patterns before the primary pattern
RegexFallbacksFirst(text, field_def) ==
    FirstMatch(text,
               Get(field_def, "fallback_patterns", <<>>)
                   \o <<Get(field_def, "regex_pattern", "")>>,
               1, Get(field_def, "default_value", None))

_extract_with_regex(text, field_def) ==
    FirstMatch(text,
               <<Get(field_def, "regex_pattern", "")>>
                   \o Get(field_def, "fallback_patterns", <<>>),
               1, Get(field_def, "default_value", None))

DefaultMaxDistance == 50

\* value.split('\n')[0]
FirstLine(s) ==
    IF FirstIn(s, {"\n"}, 1) = 0 THEN s ELSE Take(s, FirstIn(s, {"\n"}, 1) - 1)

Min(a, b) == IF a < b THEN a ELSE b

RECURSIVE FirstKeyword(_, _, _, _, _)
FirstKeyword(text, keywords, i, max_distance, default) ==
    IF i > Len(keywords) THEN Returned(default)
    ELSE LET group == Get(text, keywords[i], None)
         IN  IF group.t # "none"
             THEN Returned(clean_text(Str(FirstLine(Take(group.s, Min(max_distance, Len(group.s)))))))
             ELSE FirstKeyword(text, keywords, i + 1, max_distance, default)

_extract_with_keyword_proximity(text, field_def) ==
    FirstKeyword(text, Get(field_def, "keywords", <<>>), 1,
                 Get(field_def, "max_distance", DefaultMaxDistance),
                 Get(field_def, "default_value", None))

\* the raw value of one field, by its extraction_method
ExtractRaw(text, field_def) ==
    LET extraction_method == Get(field_def, "extraction_method", "regex")
    IN  CASE extraction_method \in {"regex", "coordinates"} ->
                _extract_with_regex(text, field_def)
          [] extraction_method = "keyword_proximity" ->
                _extract_with_keyword_proximity(text, field_def)
          [] OTHER -> Returned(None)

\* coerce_value(value, data_type), r the outcome of the strategy
CoerceRaw(r, data_type) ==
    IF r.raised # "none" THEN r ELSE coerce_value(r.val, data_type)

\* _extract_fields: the fields in order; an exception of coerce_value leaves
\* the loop
RECURSIVE ExtractFieldsFrom(_, _, _, _)
\* extracted[field_name] = coerce_value(value, data_type), c its outcome
StoreField(text, fields, i, extracted, c) ==
    IF c.raised # "none" THEN [raised |-> c.raised, data |-> extracted]
    ELSE ExtractFieldsFrom(text, fields, i + 1,
                           Put(extracted, fields[i].field_name, c.val))

ExtractFieldsFrom(text, fields, i, extracted) ==
    IF i > Len(fields) THEN [raised |-> "none", data |-> extracted]
    ELSE StoreField(text, fields, i, extracted,
                    CoerceRaw(ExtractRaw(text, fields[i]),
                              Get(fields[i], "data_type", "string")))

_extract_fields(text, template) ==
    ExtractFieldsFrom(text, Get(template, "fields", <<>>), 1, EmptyDict)

(***************************************************************************)
(* extractor.py: the DOL decoder (_extract_dol_form_data).                 *)
(*                                                                         *)
(* A document is [exists, pdf_ok, ocr_ok, text, dol]: pdf_ok says whether  *)
(* pdfplumber can open the file, ocr_ok whether the OCR collaborator can   *)
(* render it, text is the text of its pages as the generic engine sees it, *)
(* and dol is what the fixed expressions of the decoder find in the text   *)
(* the decoder reads: the two dates of the plan year (date_match), the     *)
(* digits after "5a" (boy_match), the two amounts after "7a"               *)
(* (assets_match) and whether "first return" occurs (first_return).  The   *)
(* other keys of the decoder are set in these same four ways.              *)
(***************************************************************************)
\* the parse_currency local to _extract_dol_form_data (lines 422-430)
\* except ValueError: return None
DolExceptValueError(f) == IF f.raised = "ValueError" THEN None ELSE f.val

dol_parse_currency(text) ==
    IF text = <<>> THEN None
    ELSE DolExceptValueError(float(RemoveChars(text, {"$", ","} \cup Whitespace)))

\* the plan year (lines 324-330)
DolDates(dol, extracted) ==
    IF dol.date_match # <<>>
    THEN Put(Put(extracted, "plan_year_begin", Str(dol.date_match[1])),
             "plan_year_end", Str(dol.date_match[2]))
    ELSE extracted

\* the return type flags (lines 339-342)
DolFlags(dol, extracted) == Put(extracted, "is_first_return", Bool(dol.first_return))

\* the participant count of line 5a (lines 400-403)
DolCounts(dol, extracted) ==
    IF dol.boy_match.t # "none"
    THEN Put(extracted, "total_participants_boy", IntVal(DigitsVal(dol.boy_match.s), 0))
    ELSE extracted

\* the assets (lines 433-436)
DolAssets(dol, extracted) ==
    IF dol.assets_match # <<>>
    THEN Put(Put(extracted, "total_assets_boy", dol_parse_currency(dol.assets_match[1])),
             "total_plan_assets_eoy", dol_parse_currency(dol.assets_match[2]))
    ELSE extracted

\* the compliance answers that are set whatever the text (lines 525-532)
DolDefaults(extracted) == Put(extracted, "fidelity_bond_coverage", Str(<<"Y", "e", "s">>))

DolData(dol) ==
    DolDefaults(DolAssets(dol, DolCounts(dol, DolFlags(dol, DolDates(dol, EmptyDict)))))

\* the order in which the decoder inserts its keys
DolKeyOrder ==
    << "plan_year_begin", "plan_year_end", "is_first_return",
       "total_participants_boy", "total_assets_boy", "total_plan_assets_eoy",
       "fidelity_bond_coverage" >>

\* _extract_dol_form_data: with OCR the text comes from _ocr_pdf, otherwise
\* from pdfplumber; either raises on a file it cannot read
_extract_dol_form_data(doc, ocr_available) ==
    IF ocr_available /\ ~doc.ocr_ok THEN [raised |-> "Exception", data |-> EmptyDict]
    ELSE IF ~ocr_available /\ ~doc.pdf_ok
    THEN [raised |-> "Exception", data |-> EmptyDict]
    ELSE [raised |-> "none", data |-> DolData(doc.dol)]

\* _extract_pdf_text (pages = None): pdfplumber.open raises on a file that
\* is no PDF
_extract_pdf_text(doc) ==
    IF doc.pdf_ok THEN [raised |-> "none", text |-> doc.text]
    ELSE [raised |-> "Exception", text |-> EmptyDict]

(***************************************************************************)
(* extractor.py: _decode_dol_financial_value.  The token is a string of    *)
(* digits after any number of minus signs, so float() of a piece of it     *)
(* never raises; float() of the empty string does.                         *)
(***************************************************************************)
\* text.lstrip('-')
RECURSIVE LStripMinus(_)
LStripMinus(s) == IF s # <<>> /\ Head(s) = "-" THEN LStripMinus(Tail(s)) ELSE s

RECURSIVE StripZeros(_)
StripZeros(s) == IF s # <<>> /\ Head(s) = "0" THEN StripZeros(Tail(s)) ELSE s

\* float(value_str), as far as the windows tell values apart: ten or more
\* significant digits are above every window
Magnitude(digits) == IF Len(digits) > 9 THEN 2 * 500000000 ELSE DigitsVal(digits)

\* variant: a window without its upper end
InWindowOpen(value, low) == low <= value

InWindow(value, low) == low <= value /\ value <= 500000000

\* a candidate is returned as a float
Candidate(value) == FloatVal(value, 0)

\* the first of two results that is not None
OrElse(first, second) == IF first # None THEN first ELSE second

\* for value_len in lengths: the first piece of s that lies in the window
RECURSIVE TryLengths(_, _, _, _)
TryLengths(s, lengths, i, low) ==
    IF i > Len(lengths) THEN None
    ELSE IF Len(s) >= lengths[i]
            /\ InWindow(Magnitude(StripZeros(Take(s, lengths[i]))), low)
    THEN Candidate(Magnitude(StripZeros(Take(s, lengths[i]))))
    ELSE TryLengths(s, lengths, i + 1, low)

\* variant: the shortest prefix first
PrefixesShortestFirst ==
    << <<"1", "2", "3", "4", "5", "6", "7">>,
       <<"1", "2", "3", "4", "5", "6", "7", "8">>,
       <<"1", "2", "3", "4", "5", "6", "7", "8", "9">> >>

PlaceholderPrefixes ==
    << <<"1", "2", "3", "4", "5", "6", "7", "8", "9">>,
       <<"1", "2", "3", "4", "5", "6", "7", "8">>,
       <<"1", "2", "3", "4", "5", "6", "7">> >>

ValueLengths == <<8, 9, 7, 6, 10>>

\* lines 563-576, one prefix
UnderPrefix(clean, prefix) ==
    IF IsPrefix(prefix, clean) /\ Len(clean) - Len(prefix) >= 5
    THEN TryLengths(Drop(clean, Len(prefix)), ValueLengths, 1, 100)
    ELSE None

\* Strategy 1: the standard placeholder prefixes
RECURSIVE TryPrefixes(_, _, _)
TryPrefixes(clean, prefixes, i) ==
    IF i > Len(prefixes) THEN None
    ELSE OrElse(UnderPrefix(clean, prefixes[i]), TryPrefixes(clean, prefixes, i + 1))

\* Strategy 2: for start_pos in range(4, 12)
RECURSIVE TryPositions(_, _)
TryPositions(clean, start_pos) ==
    IF start_pos >= 12 THEN None
    ELSE OrElse(TryLengths(Drop(clean, start_pos), <<8, 9, 7, 6>>, 1, 10000),
                TryPositions(clean, start_pos + 1))

SlidingWindow(clean) ==
    IF IsPrefix(<<"1", "2", "3", "4">>, clean) /\ Len(clean) >= 15
    THEN TryPositions(clean, 4)
    ELSE None

\* Strategy 3: the token as a number
Direct(clean) ==
    IF clean # <<>> /\ InWindow(Magnitude(StripZeros(clean)), 100)
    THEN Candidate(Magnitude(StripZeros(clean)))
    ELSE None

DecodeClean(clean) ==
    OrElse(TryPrefixes(clean, PlaceholderPrefixes, 1),
           OrElse(SlidingWindow(clean), Direct(clean)))

_decode_dol_financial_value(text) ==
    IF text = <<>> THEN None ELSE DecodeClean(LStripMinus(text))

(***************************************************************************)
(* extractor.py: _format_output.  A table is [columns, rows].              *)
(***************************************************************************)
EmptyTable == [columns |-> <<>>, rows |-> <<>>]

DefaultDateFormat == Str(<<"Y","Y","Y","Y","-","M","M","-","D","D">>)

\* variant: dates left as they are in the vertical layout
KeepDate(value, field_def, date_format) == value

\* the value of one vertical row: dates reformatted, currency rendered
FormatDated(value, field_def, date_format) ==
    IF Truthy(value) /\ Get(field_def, "data_type", "") = "date"
    THEN format_date(value, date_format)
    ELSE value

\* variant: decimal fields rendered like currency fields
FormatMoneyAndDecimal(value, field_def) ==
    IF /\ value.t # "none"
       /\ Get(field_def, "data_type", "") \in {"currency", "decimal"}
       /\ value.t \in {"int", "float", "float_inf", "float_nan", "bool"}
    THEN FormatCurrency(value)
    ELSE value

FormatMoney(value, field_def) ==
    IF /\ value.t # "none"
       /\ Get(field_def, "data_type", "") = "currency"
       /\ value.t \in {"int", "float", "float_inf", "float_nan", "bool"}
    THEN FormatCurrency(value)
    ELSE value

\* variant: the value as it is
KeepNone(value) == value

\* value if value is not None else ''
OrEmpty(value) == IF value.t # "none" THEN value ELSE Str(<<>>)

VerticalValue(value, field_def, date_format) ==
    OrEmpty(FormatMoney(FormatDated(value, field_def, date_format), field_def))

VerticalRow(data, field_def, date_format) ==
    [line_code |-> Get(field_def, "line_code", Str(<<"-">>)),
     field_name |-> field_def.field_name,
     display_name |-> Get(field_def, "display_name", field_def.field_name),
     value |-> VerticalValue(Get(data, field_def.field_name, None), field_def,
                             date_format)]

_is_date_field(field_name, template) ==
    LET fields == Get(template, "fields", <<>>)
        hits == {i \in 1..Len(fields) : Get(fields[i], "field_name", "") = field_name}
    IN  hits # {} /\
        Get(fields[CHOOSE i \in hits : \A j \in hits : i <= j], "data_type", "") = "date"

HorizontalValue(data, header, template, date_format) ==
    LET value == Get(data, header, None)
    IN  IF Truthy(value) /\ _is_date_field(header, template)
        THEN format_date(value, date_format)
        ELSE value

\* the elements of a sequence in order, each once
RECURSIVE Dedup(_, _)
Dedup(seq, seen) ==
    IF seq = <<>> THEN <<>>
    ELSE IF Head(seq) \in seen THEN Dedup(Tail(seq), seen)
    ELSE <<Head(seq)>> \o Dedup(Tail(seq), seen \cup {Head(seq)})

\* list(data.keys()): the fields in template order, then the keys the
\* decoder added
DataKeys(data, template) ==
    LET fields == Get(template, "fields", <<>>)
    IN  SelectSeq(Dedup([i \in 1..Len(fields) |-> fields[i].field_name] \o DolKeyOrder,
                        {}),
                  LAMBDA k : k \in DOMAIN data)

_format_output(data, template) ==
    LET output_format == Get(template, "output_format", EmptyDict)
        date_format == Get(output_format, "date_format", DefaultDateFormat)
        fields == Get(template, "fields", <<>>)
    IN  IF Get(output_format, "include_line_codes", FALSE)
        THEN [columns |-> IF fields = <<>> THEN <<>>
                          ELSE <<"line_code", "field_name", "display_name", "value">>,
              rows |-> [i \in 1..Len(fields) |->
                            VerticalRow(data, fields[i], date_format)]]
        ELSE LET csv_headers ==
                     Get(output_format, "csv_headers", DataKeys(data, template))
             IN  [columns |-> Dedup(csv_headers, {}),
                  rows |-> << [h \in {csv_headers[i] : i \in 1..Len(csv_headers)} |->
                                  HorizontalValue(data, h, template, date_format)] >>]

(***************************************************************************)
(* extractor.py: Extractor.extract.                                        *)
(***************************************************************************)
\* a message that lists one identifier fewer
MaxListedShort == 10 - 1

\* the identifiers the template-not-found message lists (available[:10])
MaxListed == 10

DolTemplates == {Str(Id5500), Str(Id5500SF)}

\* the merge with the generic engine's value preferred
MergeDolTextFirst(text_data, dol_data) ==
    LET kept == {k \in DOMAIN text_data : text_data[k].t # "none"}
        found == {k \in DOMAIN dol_data : dol_data[k].t # "none"}
    IN  [extracted_data |->
            [k \in DOMAIN text_data \cup found |->
                IF k \in kept \/ k \notin found THEN text_data[k] ELSE dol_data[k]],
         text_data |-> text_data]

\* the merge without the test "value is not None"
MergeDolAll(text_data, dol_data) ==
    [extracted_data |->
        [k \in DOMAIN text_data \cup DOMAIN dol_data |->
            IF k \in DOMAIN dol_data THEN dol_data[k] ELSE text_data[k]],
     text_data |-> text_data]

\* lines 207-211: the merge works on a copy of text_data
MergeDol(text_data, dol_data) ==
    LET found == {k \in DOMAIN dol_data : dol_data[k].t # "none"}
    IN  [extracted_data |->
            [k \in DOMAIN text_data \cup found |->
                IF k \in found THEN dol_data[k] ELSE text_data[k]],
         text_data |-> text_data]

\* what a call of extract leaves: the exception raised ("none" when it
\* returned), the identifiers of a template-not-found message, the record
\* handed to _format_output, the generic engine's map after the merge, the
\* table returned, and the steps taken in order
ExtractOutcome(raised, ids, merged, table, steps) ==
    [raised |-> raised, ids |-> ids, record |-> merged.extracted_data,
     text_data |-> merged.text_data, table |-> table, steps |-> steps]

NoMerge == [extracted_data |-> EmptyDict, text_data |-> EmptyDict]

\* available[:10]
FirstIds(listed) == [i \in 1..Min(MaxListed, Len(listed)) |-> listed[i].id]

AvailableIds(templates) == FirstIds(list_templates(templates))

\* lines 180-190 with the checks in the other order
FirstErrorTemplateFirst(doc, template_def) ==
    IF DOMAIN template_def = {} THEN "ValueError"
    ELSE IF ~doc.exists THEN "FileNotFoundError"
    ELSE "none"

\* lines 180-190: the document is looked for before the template
FirstError(doc, template_def) ==
    IF ~doc.exists THEN "FileNotFoundError"
    ELSE IF DOMAIN template_def = {} THEN "ValueError"
    ELSE "none"

\* the steps taken when the text has been read
StepsBefore(template) ==
    <<"exists", "get_template">>
    \o (IF template \in DolTemplates THEN <<"_extract_dol_form_data">> ELSE <<>>)
    \o <<"_extract_pdf_text">>

\* lines 197-201: except Exception: dol_data = {}
DolOrEmpty(dol) == IF dol.raised # "none" THEN EmptyDict ELSE dol.data

\* line 218: the record is formatted and the table returned
ExtractFormat(template, template_def, merged) ==
    ExtractOutcome("none", <<>>, merged,
                   _format_output(merged.extracted_data, template_def),
                   StepsBefore(template) \o <<"_extract_fields", "_format_output">>)

\* lines 205-215: an exception of _extract_fields leaves extract; for a DOL
\* form its map is merged with the decoder's
ExtractMerge(doc, ocr_available, template, template_def, text_data) ==
    IF text_data.raised # "none"
    THEN ExtractOutcome(text_data.raised, <<>>, NoMerge, EmptyTable,
                        StepsBefore(template) \o <<"_extract_fields">>)
    ELSE ExtractFormat(template, template_def,
             IF template \in DolTemplates
             THEN MergeDol(text_data.data,
                           DolOrEmpty(_extract_dol_form_data(doc, ocr_available)))
             ELSE [extracted_data |-> text_data.data, text_data |-> text_data.data])

\* lines 204 and 214: an exception of _extract_pdf_text leaves extract
ExtractText(doc, ocr_available, template, template_def, text) ==
    IF text.raised # "none"
    THEN ExtractOutcome(text.raised, <<>>, NoMerge, EmptyTable, StepsBefore(template))
    ELSE ExtractMerge(doc, ocr_available, template, template_def,
                      _extract_fields(text.text, template_def))

\* lines 180-190: the two errors extract raises itself
ExtractChecked(doc, templates, ocr_available, template, template_def, error) ==
    IF error = "FileNotFoundError"
    THEN ExtractOutcome(error, <<>>, NoMerge, EmptyTable, <<"exists">>)
    ELSE IF error = "ValueError"
    THEN ExtractOutcome(error, AvailableIds(templates), NoMerge, EmptyTable,
                        <<"exists", "get_template", "list_templates">>)
    ELSE ExtractText(doc, ocr_available, template, template_def, _extract_pdf_text(doc))

ExtractWith(doc, templates, ocr_available, template, template_def) ==
    ExtractChecked(doc, templates, ocr_available, template, template_def,
                   FirstError(doc, template_def))

extract(doc, templates, ocr_available, template) ==
    ExtractWith(doc, templates, ocr_available, template,
                get_template(templates, template))

(***************************************************************************)
(* extractor.py: Extractor.extract_batch.                                  *)
(***************************************************************************)
\* result['_source_file'] = str(pdf_path): the column is added to every row
TagSource(table, pdf_path) ==
    [columns |-> Dedup(table.columns \o <<"_source_file">>, {}),
     rows |-> [i \in 1..Len(table.rows) |-> Put(table.rows[i], "_source_file", pdf_path)]]

\* pd.concat(all_results, ignore_index=True): the rows in order under the
\* union of the columns
RECURSIVE Concat(_)
Concat(tables) ==
    IF tables = <<>> THEN EmptyTable
    ELSE LET rest == Concat(Tail(tables))
         IN  [columns |-> Dedup(Head(tables).columns \o rest.columns, {}),
              rows |-> Head(tables).rows \o rest.rows]

\* a handler that ignores continue_on_error
OnErrorAlwaysRaise(continue_on_error) == "raise"

\* a handler that swallows every exception
OnErrorAlwaysContinue(continue_on_error) == "continue"

\* lines 244-249: what the handler of the loop does with an exception
OnError(continue_on_error) == IF continue_on_error THEN "continue" ELSE "raise"

\* the loop of extract_batch from the i-th path on: all_results so far, the
\* paths attempted and the paths whose error was printed
RECURSIVE BatchLoop(_, _, _, _, _, _, _, _, _)
\* lines 240-249: the i-th document, result the outcome of its extract
BatchStep(files, templates, ocr_available, pdf_paths, template, continue_on_error, i, all_results, log, result) ==
    IF result.raised = "none"
    THEN BatchLoop(files, templates, ocr_available, pdf_paths, template,
                   continue_on_error, i + 1,
                   Append(all_results, TagSource(result.table, pdf_paths[i])), log)
    ELSE IF OnError(continue_on_error) = "continue"
    THEN BatchLoop(files, templates, ocr_available, pdf_paths, template,
                   continue_on_error, i + 1, all_results, Append(log, pdf_paths[i]))
    ELSE [raised |-> result.raised, table |-> EmptyTable,
          attempted |-> Take(pdf_paths, i), printed |-> log]

BatchLoop(files, templates, ocr_available, pdf_paths, template, continue_on_error, i, all_results, log) ==
    IF i > Len(pdf_paths)
    THEN [raised |-> "none", table |-> Concat(all_results),
          attempted |-> pdf_paths, printed |-> log]
    ELSE BatchStep(files, templates, ocr_available, pdf_paths, template,
                   continue_on_error, i, all_results, log,
                   extract(files[pdf_paths[i]], templates, ocr_available, template))

extract_batch(files, templates, ocr_available, pdf_paths, template, continue_on_error) ==
    BatchLoop(files, templates, ocr_available, pdf_paths, template, continue_on_error,
              1, <<>>, <<>>)

(***************************************************************************)
(* extractor.py: validate_extraction.  The results are a table [columns,   *)
(* rows]; a validation pattern is an opaque name: v_digits stands for      *)
(* ^\d+$, v_letters for ^[A-Za-z]+$, a name in InvalidPatterns for a       *)
(* pattern that does not compile.                                          *)
(***************************************************************************)
\* str(value) of the values a table cell holds here
PyStr(value) ==
    CASE value.t = "str" -> value.s
      [] value.t = "none" -> <<"N", "o", "n", "e">>
      [] value.t = "bool" -> IF value.n = 1 THEN <<"T", "r", "u", "e">>
                             ELSE <<"F", "a", "l", "s", "e">>
      [] value.t = "float_nan" -> <<"n", "a", "n">>
      [] value.t = "int" ->
            (IF value.n < 0 THEN <<"-">> ELSE <<>>) \o NatToStr(Abs(value.n) * Pow10(value.e))

IsLetters(s) == Len(s) > 0 /\ \A i \in 1..Len(s) : s[i] \in Letters

\* re.match(validation, string)
re_match(validation, string) ==
    IF validation \in InvalidPatterns THEN Raised("re.error")
    ELSE Returned(Bool(\/ validation = "v_digits" /\ IsDigits(string)
                       \/ validation = "v_letters" /\ IsLetters(string)))

\* pandas notna(): None and NaN are missing values
NotNa(value) == value.t \notin {"none", "float_nan"}

\* the columns whose cells are a path or a field name: never a missing value
NameColumns == {"_source_file", "field_name", "display_name"}

\* a cell that concat did not fill is NaN
CellNotNa(row, column) ==
    column \in DOMAIN row /\ (column \in NameColumns \/ NotNa(row[column]))

\* len([c for c in results.columns if results[c].notna().any()])
FieldsExtracted(results) ==
    Cardinality({i \in 1..Len(results.columns) :
                    \E r \in 1..Len(results.rows) : CellNotNa(results.rows[r], results.columns[i])})

Report(results, fields, errors, warnings) ==
    [valid |-> Len(errors) = 0, errors |-> errors, warnings |-> warnings,
     fields_extracted |-> FieldsExtracted(results), fields_total |-> Len(fields)]

RECURSIVE CheckFields(_, _, _, _, _)
\* "if validation and value: if not re.match(...)", m the outcome of re.match
CheckPattern(results, fields, i, errors, warnings, m) ==
    IF m.raised # "none" THEN m
    ELSE CheckFields(results, fields, i + 1, errors,
                     warnings \o When(~Truthy(m.val),
                                      Err("doesn't match pattern", i - 1, fields[i].field_name)))

\* the checks of a field that is a column of the results, value its cell in
\* the first row
CheckValue(results, fields, i, errors, warnings, required, validation, value) ==
    IF validation # "" /\ Truthy(value)
    THEN CheckPattern(results, fields, i,
                      errors \o When(required /\ (value.t = "none" \/ value = Str(<<>>)),
                                     Err("is empty", i - 1, fields[i].field_name)),
                      warnings, re_match(validation, PyStr(value)))
    ELSE CheckFields(results, fields, i + 1,
                     errors \o When(required /\ (value.t = "none" \/ value = Str(<<>>)),
                                    Err("is empty", i - 1, fields[i].field_name)),
                     warnings)

\* variant: a field that is no column of the results is passed over
CheckFieldSkipAbsent(results, fields, i, errors, warnings, field_name, required, validation) ==
    IF \A c \in 1..Len(results.columns) : results.columns[c] # field_name
    THEN CheckFields(results, fields, i + 1, errors, warnings)
    ELSE CheckValue(results, fields, i, errors, warnings, required, validation,
                    IF Len(results.rows) > 0 THEN results.rows[1][field_name] ELSE None)

CheckField(results, fields, i, errors, warnings, field_name, required, validation) ==
    IF \A c \in 1..Len(results.columns) : results.columns[c] # field_name
    THEN CheckFields(results, fields, i + 1,
                     errors \o When(required, Err("not in results", i - 1, field_name)),
                     warnings)
    ELSE CheckValue(results, fields, i, errors, warnings, required, validation,
                    IF Len(results.rows) > 0 THEN results.rows[1][field_name] ELSE None)

CheckFields(results, fields, i, errors, warnings) ==
    IF i > Len(fields) THEN Returned(Report(results, fields, errors, warnings))
    ELSE CheckField(results, fields, i, errors, warnings, fields[i].field_name,
                    Get(fields[i], "required", FALSE), Get(fields[i], "validation", ""))

TemplateNotFound == Err("Template not found", -1, "")

validate_extraction(results, templates, template) ==
    IF get_template(templates, template) = EmptyDict
    THEN Returned([valid |-> FALSE, errors |-> <<TemplateNotFound>>])
    ELSE CheckFields(results, Get(get_template(templates, template), "fields", <<>>),
                     1, <<>>, <<>>)

(***************************************************************************)
(* State.                                                                  *)
(*   coerceCall     one call of coerce_value: its arguments and outcome    *)
(*   templates_dir  the templates directory: whether it exists and its     *)
(*                  files in discovery order                               *)
(*   loader         "absent" before TemplateLoader() has returned, "ready" *)
(*                  after                                                  *)
(*   _templates     TemplateLoader._templates                              *)
(*   loadCall       the last catalog operation and the exception it raised *)
(*   fs             the documents of the file system, by path              *)
(*   OCR_AVAILABLE  whether the OCR packages were importable               *)
(*   extractCall    the last call of extract: arguments and outcome        *)
(*   batchCall      the last call of extract_batch: arguments and outcome  *)
(*   validateCall   one call of validate_template: template and errors     *)
(*   strategyCall   one call of an extraction strategy: text, field, value *)
(*   reportCall     one call of validate_extraction: table and report      *)
(*   formatCall     one call of _format_output: record, template, table    *)
(*   lastCall       the last call made on a catalog in use: the method,    *)
(*                  its arguments and its outcome                          *)
(***************************************************************************)
VARIABLES coerceCall, templates_dir, loader, _templates, loadCall,
          fs, OCR_AVAILABLE, extractCall, batchCall, validateCall,
          strategyCall, reportCall, formatCall, lastCall

vars == <<coerceCall, templates_dir, loader, _templates, loadCall,
          fs, OCR_AVAILABLE, extractCall, batchCall, validateCall,
          strategyCall, reportCall, formatCall, lastCall>>

NotCalled == [raised |-> "pending", val |-> None]

\* the characters the enumerated raw strings are made of
Alphabet == {"1", "9", ".", ",", "-", "e", "i", "n", "f", "%"}

RECURSIVE StringsUpTo(_)
StringsUpTo(k) ==
    IF k = 0 THEN {<<>>}
    ELSE LET shorter == StringsUpTo(k - 1)
         IN  shorter \cup {Append(s, c) : s \in {x \in shorter : Len(x) = k - 1},
                                          c \in Alphabet}

\* longer raw strings of the kinds the tests and the docstrings name
Samples ==
    { <<"$", "1", ",", "2", "3", "4", ".", "5", "6">>,
      <<"(", "1", ",", "2", "3", "4", ".", "5", "6", ")">>,
      <<"1", "e", "9", "9", "9">>,
      <<"i", "n", "f", "i", "n", "i", "t", "y">>,
      <<"a", "b", "c">>,
      <<" ", "Y", "e", "s">>,
      <<"1", "2", ".", "5", "%">>,
      <<"0", "1", "/", "1", "5", "/", "2", "0", "2", "4">>,
      <<"0", "1", "-", "1", "5", "-", "2", "0", "2", "4">>,
      <<"2", "0", "2", "4", "-", "0", "1", "-", "1", "5">>,
      <<"1", "3", "/", "0", "1", "/", "2", "0", "2", "3">>,
      <<"0", "2", "/", "3", "0", "/", "2", "0", "2", "3">>,
      <<"J", "a", "n", " ", "5", ",", " ", "2", "0", "2", "4">>,
      <<"n", "o", "t", " ", "a", " ", "d", "a", "t", "e">> }

RawStrings == StringsUpTo(MaxLen) \cup Samples

\* data_type values outside the enum fall to the final else branch
CoerceTypes == DataTypes \cup {"other"}

CoerceIdle == [value |-> None, data_type |-> "string", out |-> NotCalled]

NoDir == [exists |-> FALSE, files |-> <<>>]

NoLoad == [op |-> "none", raised |-> "none"]

CatalogIdle ==
    /\ templates_dir = NoDir
    /\ loader = "absent"
    /\ _templates = <<>>
    /\ loadCall = NoLoad

catalogVars == <<templates_dir, loader, _templates, loadCall>>

NoExtract ==
    [called |-> FALSE, pdf_path |-> "", template |-> None,
     out |-> ExtractOutcome("none", <<>>, NoMerge, EmptyTable, <<>>)]

NoBatch ==
    [called |-> FALSE, pdf_paths |-> <<>>, template |-> None,
     continue_on_error |-> TRUE,
     out |-> [raised |-> "none", table |-> EmptyTable, attempted |-> <<>>,
              printed |-> <<>>]]

ExtractorIdle ==
    /\ fs = EmptyDict
    /\ OCR_AVAILABLE = FALSE
    /\ extractCall = NoExtract
    /\ batchCall = NoBatch

extractorVars == <<fs, OCR_AVAILABLE, extractCall, batchCall>>

NoValidate == [called |-> FALSE, template |-> EmptyDict, errors |-> <<>>]

NoReport == [called |-> FALSE, results |-> EmptyTable, template |-> None, out |-> Returned(EmptyDict)]

NoCall == [op |-> "none", arg |-> None, out |-> None]

NoFormat == [called |-> FALSE, data |-> EmptyDict, template |-> EmptyDict, out |-> EmptyTable]

NoStrategy == [called |-> FALSE, text |-> EmptyDict, field_def |-> EmptyDict, out |-> Returned(None)]

\* the calls of the validation and formatting operations, when none is made
CallsIdle ==
    /\ validateCall = NoValidate
    /\ strategyCall = NoStrategy
    /\ reportCall = NoReport
    /\ formatCall = NoFormat
    /\ lastCall = NoCall

callVars == <<validateCall, strategyCall, reportCall, formatCall, lastCall>>

InitCoerce ==
    /\ coerceCall \in [value : {None} \cup {Str(s) : s \in RawStrings},
                       data_type : CoerceTypes,
                       out : {NotCalled}]
    /\ CatalogIdle
    /\ ExtractorIdle
    /\ CallsIdle

Coerce ==
    /\ coerceCall.out = NotCalled
    /\ coerceCall' = [coerceCall EXCEPT
                        !.out = coerce_value(coerceCall.value, coerceCall.data_type)]
    /\ UNCHANGED <<catalogVars, extractorVars, callVars>>

NextCoerce == Coerce

SpecCoerce == InitCoerce /\ [][NextCoerce]_vars

(***************************************************************************)
(* The catalog: construction and reload over a directory of files.         *)
(***************************************************************************)
MaxFiles == 3

\* the sequences without repetition of at most k files of the pool
RECURSIVE FileSeqs(_)
FileSeqs(k) ==
    IF k = 0 THEN {<<>>}
    ELSE LET shorter == FileSeqs(k - 1)
         IN  shorter \cup
             {Append(fl, f) : fl \in {x \in shorter : Len(x) = k - 1},
                              f \in FilePool}

NoRepeat(fl) == \A i, j \in 1..Len(fl) : i < j => fl[i] # fl[j]

Directories == {NoDir} \cup {[exists |-> TRUE, files |-> fl] : fl \in {x \in FileSeqs(MaxFiles) : NoRepeat(x)}}

InitCatalog ==
    /\ templates_dir \in Directories
    /\ loader = "absent"
    /\ _templates = <<>>
    /\ loadCall = NoLoad
    /\ coerceCall = CoerceIdle
    /\ CallsIdle
    /\ ExtractorIdle

\* TemplateLoader(templates_dir): when _load_templates raises there is no
\* loader object
Construct ==
    /\ loader = "absent"
    /\ loadCall = NoLoad
    /\ LET r == _load_templates(<<>>, templates_dir)
       IN  /\ loadCall' = [op |-> "init", raised |-> r.raised]
           /\ loader' = IF r.raised = "none" THEN "ready" ELSE "absent"
           /\ _templates' = IF r.raised = "none" THEN r.templates ELSE <<>>
    /\ UNCHANGED <<templates_dir, coerceCall, extractorVars, callVars>>

\* reload(): clear, then _load_templates; what was loaded before an
\* exception stays in the catalog
Reload ==
    /\ loader = "ready"
    /\ LET r == _load_templates(<<>>, templates_dir)
       IN  /\ loadCall' = [op |-> "reload", raised |-> r.raised]
           /\ _templates' = r.templates
    /\ UNCHANGED <<templates_dir, loader, coerceCall, extractorVars, callVars>>

NextCatalog == Construct \/ Reload

SpecCatalog == InitCatalog /\ [][NextCatalog]_vars

(***************************************************************************)
(* Extractor.extract over the documents of a file system.                  *)
(***************************************************************************)
MaxFillers == 8

\* a templates directory of the three forms and n further templates
RECURSIVE Fillers(_)
Fillers(n) == IF n = 0 THEN <<>> ELSE Append(Fillers(n - 1), FileFiller(n))

DirWith(n) == [exists |-> TRUE, files |-> <<File5500, File5500SF, FileW2>> \o Fillers(n)]

NoDol == [date_match |-> <<>>, boy_match |-> None, assets_match |-> <<>>,
          first_return |-> FALSE]

MissingDoc ==
    [exists |-> FALSE, pdf_ok |-> FALSE, ocr_ok |-> FALSE, text |-> EmptyDict,
     dol |-> NoDol]

\* a file that is no PDF, such as the stub files of the tests
CorruptDoc == [MissingDoc EXCEPT !.exists = TRUE]

\* what the decoder's expressions can find
DolFinds ==
    [date_match : {<<>>, << <<"0","1","/","0","1","/","2","0","2","3">>,
                            <<"1","2","/","3","1","/","2","0","2","3">> >>},
     boy_match : {None, Str(<<"4", "8", "7">>)},
     assets_match : {<<>>, << <<"1", ",", "0", "0", "0">>, <<"2", "5">> >>,
                     << <<",">>, <<"5">> >>},
     first_return : {FALSE}]

\* what the patterns of the templates can capture
DateCaptures ==
    {None, Str(<<"0","2","/","0","1","/","2","0","2","3">>), Str(<<"s","o","o","n">>)}

BoyCaptures == {None, Str(<<>>), Str(<<"1", "5", "0">>), Str(<<"i", "n", "f">>)}

Boy2Captures == {None, Str(<<"1", "7", "5">>)}

AssetCaptures == {None, Str(<<"$", "2", ",", "5", "0", "0", ".", "5", "0">>)}

EmployerCaptures == {None, Str(<<"A", "C", "M", "E", " ", " ", "C", "o", "\n", "x">>)}

TextOf(caps) == [p \in {q \in DOMAIN caps : caps[q].t # "none"} |-> caps[p]]

GoodDoc ==
    [exists |-> TRUE, pdf_ok |-> TRUE, ocr_ok |-> TRUE,
     text |-> TextOf([p_date |-> Str(<<"0","2","/","0","1","/","2","0","2","3">>),
                      p_boy |-> Str(<<"1", "5", "0">>)]),
     dol |-> [NoDol EXCEPT !.boy_match = Str(<<"4", "8", "7">>)]]

\* a readable document whose participant count makes coerce_value raise
OverflowDoc ==
    [GoodDoc EXCEPT !.text = TextOf([p_boy |-> Str(<<"i", "n", "f">>)]), !.dol = NoDol]

Texts ==
    {TextOf(caps) : caps \in [p_date : DateCaptures, p_boy : BoyCaptures,
                              p_boy2 : Boy2Captures, p_assets : AssetCaptures,
                              k_employer : EmployerCaptures]}

Documents ==
    {MissingDoc, CorruptDoc}
    \cup [exists : {TRUE}, pdf_ok : {TRUE}, ocr_ok : BOOLEAN, text : Texts,
          dol : DolFinds]

TemplateArgs == {Str(Id5500), Str(Id5500SF), Str(IdW2), Str(IdUnknown)}

\* the catalog as TemplateLoader() leaves it for the directory dir
ReadyCatalog(dir) ==
    /\ templates_dir = dir
    /\ loader = "ready"
    /\ _templates = _load_templates(<<>>, dir).templates
    /\ loadCall = [op |-> "init", raised |-> "none"]

\* every document under the catalog of the three forms, and three kinds of
\* document under every larger catalog
InitExtract ==
    /\ \/ /\ ReadyCatalog(DirWith(0))
          /\ fs \in [{"a.pdf"} -> Documents]
       \/ /\ \E n \in 1..MaxFillers : ReadyCatalog(DirWith(n))
          /\ fs \in [{"a.pdf"} -> {MissingDoc, CorruptDoc, GoodDoc}]
    /\ OCR_AVAILABLE \in BOOLEAN
    /\ extractCall = NoExtract
    /\ batchCall = NoBatch
    /\ coerceCall = CoerceIdle
    /\ CallsIdle

\* one call of extract; a call leaves the extractor as it found it, so a
\* behaviour makes one
Extract ==
    /\ loader = "ready"
    /\ ~extractCall.called
    /\ \E pdf_path \in DOMAIN fs, template \in TemplateArgs :
           extractCall' =
               [called |-> TRUE, pdf_path |-> pdf_path, template |-> template,
                out |-> extract(fs[pdf_path], _templates, OCR_AVAILABLE, template)]
    /\ UNCHANGED <<coerceCall, catalogVars, fs, OCR_AVAILABLE, batchCall, callVars>>

NextExtract == Extract

SpecExtract == InitExtract /\ [][NextExtract]_vars

(***************************************************************************)
(* Extractor.extract_batch over lists of documents.                        *)
(***************************************************************************)
MaxBatch == 2

BatchPaths == {"a.pdf", "b.pdf", "c.pdf"}

BatchDocuments == {MissingDoc, CorruptDoc, GoodDoc, OverflowDoc}

RECURSIVE PathLists(_)
PathLists(k) ==
    IF k = 0 THEN {<<>>}
    ELSE LET shorter == PathLists(k - 1)
         IN  shorter \cup {Append(l, x) : l \in {y \in shorter : Len(y) = k - 1},
                                          x \in BatchPaths}

InitBatch ==
    /\ ReadyCatalog(DirWith(0))
    /\ fs \in [BatchPaths -> BatchDocuments]
    /\ OCR_AVAILABLE \in BOOLEAN
    /\ extractCall = NoExtract
    /\ batchCall = NoBatch
    /\ coerceCall = CoerceIdle
    /\ CallsIdle

ExtractBatch ==
    /\ loader = "ready"
    /\ ~batchCall.called
    /\ \E pdf_paths \in PathLists(MaxBatch), template \in TemplateArgs,
          continue_on_error \in BOOLEAN :
           batchCall' =
               [called |-> TRUE, pdf_paths |-> pdf_paths, template |-> template,
                continue_on_error |-> continue_on_error,
                out |-> extract_batch(fs, _templates, OCR_AVAILABLE, pdf_paths,
                                      template, continue_on_error)]
    /\ UNCHANGED <<coerceCall, catalogVars, fs, OCR_AVAILABLE, extractCall, callVars>>

NextBatch == ExtractBatch

SpecBatch == InitBatch /\ [][NextBatch]_vars

(***************************************************************************)
(* validate_template over templates that differ from a shipped one in the  *)
(* identifier, the version, the field list or the output format.           *)
(***************************************************************************)
MaxIdLen == 2

MaxFields == 2

IdAlphabet == {"a", "B", "5", "-", "_", " "}

RECURSIVE IdStrings(_)
IdStrings(k) ==
    IF k = 0 THEN {<<>>}
    ELSE LET shorter == IdStrings(k - 1)
         IN  shorter \cup {Append(x, c) : x \in {y \in shorter : Len(y) = k - 1},
                                          c \in IdAlphabet}

Versions ==
    { Version100, <<"1", ".", "0">>, <<"1", ".", "a", ".", "0">>,
      <<"1", ".", ".", "0">>, <<"1", ".", "0", ".", "0", ".", "0">>, <<>> }

\* a field with the given data_type and extraction_method and, as extra, a
\* primary pattern, a position descriptor or neither
FieldWith(data_type, method, extra) ==
    LET field == [field_name |-> "wages", display_name |-> "wages",
                  data_type |-> data_type, required |-> TRUE,
                  extraction_method |-> method]
    IN  CASE extra = "regex_pattern" -> Put(field, "regex_pattern", "p_assets")
          [] extra = "coordinates" -> Put(field, "coordinates", [page |-> 1])
          [] OTHER -> field

Without(d, key) == [k \in DOMAIN d \ {key} |-> d[k]]

FieldVariants ==
    {FieldWith("currency", method, extra) :
        method \in valid_methods \cup {"", "magic"},
        extra \in {"none", "regex_pattern", "coordinates"}}
    \cup {FieldWith(data_type, "table", "none") : data_type \in {"", "blob"}}
    \cup {Without(FieldWith("currency", "regex", "regex_pattern"), key) : key \in {"data_type", "extraction_method"}}
    \cup {[FieldWith("currency", "regex", "regex_pattern") EXCEPT !.field_name = "plan year"]}

RECURSIVE FieldLists(_)
FieldLists(k) ==
    IF k = 0 THEN {<<>>}
    ELSE LET shorter == FieldLists(k - 1)
         IN  shorter \cup {Append(x, f) : x \in {y \in shorter : Len(y) = k - 1},
                                          f \in FieldVariants}

\* output formats over the fields of form-5500: the shipped one, one whose
\* columns name a field the template does not have, one without columns
OutputFormats ==
    { Template5500.output_format,
      [csv_headers |-> <<"ghost">>],
      [csv_headers |-> <<"plan_year_begin", "ghost">>],
      [date_format |-> Str(DateFormatUS)] }

ValidateTemplates ==
    {[Template5500 EXCEPT !.template_id = Str(id), !.output_format = o] :
        id \in IdStrings(MaxIdLen), o \in OutputFormats}
    \cup {[Template5500 EXCEPT !.version = Str(v)] : v \in Versions}
    \cup {[TemplateW2 EXCEPT !.fields = fl] : fl \in FieldLists(MaxFields)}
    \cup {Without(Template5500, key) : key \in DOMAIN Template5500}
    \cup {Template5500, Template5500SF, TemplateW2}

InitValidate ==
    /\ validateCall \in {[NoValidate EXCEPT !.template = t] : t \in ValidateTemplates}
    /\ strategyCall = NoStrategy
    /\ reportCall = NoReport
    /\ formatCall = NoFormat
    /\ coerceCall = CoerceIdle
    /\ CatalogIdle
    /\ ExtractorIdle
    /\ lastCall = NoCall

\* errors = loader.validate_template(template)
Validate ==
    /\ ~validateCall.called
    /\ validateCall' = [validateCall EXCEPT !.called = TRUE,
                                            !.errors = validate_template(validateCall.template)]
    /\ UNCHANGED <<coerceCall, catalogVars, extractorVars, lastCall, strategyCall, reportCall, formatCall>>

NextValidate == Validate

SpecValidate == InitValidate /\ [][NextValidate]_vars

(***************************************************************************)
(* The extraction strategies over one field and one text.                  *)
(***************************************************************************)
MaxFallbacks == 2

RECURSIVE PatternLists(_)
PatternLists(k) ==
    IF k = 0 THEN {<<>>}
    ELSE LET shorter == PatternLists(k - 1)
         IN  shorter \cup {Append(x, pattern) : x \in {y \in shorter : Len(y) = k - 1},
                                                pattern \in {"p2", "p3", "p_bad", ""}}

DefaultNA == Str(<<"n", "/", "a">>)

\* with or without a declared default_value
WithDefaults(field_def) == {field_def, Put(field_def, "default_value", DefaultNA)}

\* fields of the pattern and of the position strategy: with a primary
\* pattern that compiles (p1), that does not (p_bad), that is empty, or none
RegexFields ==
    UNION {WithDefaults([field_name |-> "wages", data_type |-> "string",
                         extraction_method |-> method,
                         regex_pattern |-> pattern, fallback_patterns |-> fallbacks]) :
              method \in {"regex", "coordinates"},
              pattern \in {"p1", "p_bad", ""},
              fallbacks \in PatternLists(MaxFallbacks)}
    \cup UNION {WithDefaults([field_name |-> "wages", data_type |-> "string",
                              extraction_method |-> "regex", fallback_patterns |-> fallbacks]) :
                   fallbacks \in PatternLists(MaxFallbacks)}

KeywordFields ==
    UNION {WithDefaults([field_name |-> "employer", data_type |-> "string",
                         extraction_method |-> "keyword_proximity",
                         keywords |-> keywords]) :
              keywords \in {<<>>, <<"k1">>, <<"k2">>, <<"k1", "k2">>, <<"k2", "k1">>}}
    \cup WithDefaults([field_name |-> "employer", data_type |-> "string",
                       extraction_method |-> "keyword_proximity",
                       keywords |-> <<"k1">>, max_distance |-> 1])

\* what a pattern or a keyword captures in a text: nothing (None), the empty
\* string, blanks, or a value
Captures(pattern) ==
    CASE pattern = "p1" -> {None, Str(<<>>), Str(<<"a", "1">>)}
      [] pattern = "p2" -> {None, Str(<<" ">>), Str(<<"a", " ", " ", "2">>)}
      [] pattern = "p3" -> {None, Str(<<"a", "3">>)}
      [] pattern = "k1" -> {None, Str(<<"b", "1", "\n", "c">>)}
      [] pattern = "k2" -> {None, Str(<<"b", "2">>)}

\* the texts over the given patterns; the text in which nothing is captured
\* stands for the empty text as well
TextsOver(patterns) ==
    {[pattern \in {x \in patterns : captured[x] # None} |-> captured[pattern]] :
        captured \in {f \in [patterns -> UNION {Captures(x) : x \in patterns}] :
                         \A x \in patterns : f[x] \in Captures(x)}}

StrategyCalls ==
    {[NoStrategy EXCEPT !.text = text, !.field_def = field_def] :
        text \in TextsOver({"p1", "p2", "p3"}), field_def \in RegexFields}
    \cup {[NoStrategy EXCEPT !.text = text, !.field_def = field_def] :
             text \in TextsOver({"k1", "k2"}), field_def \in KeywordFields}

InitStrategy ==
    /\ strategyCall \in StrategyCalls
    /\ validateCall = NoValidate
    /\ reportCall = NoReport
    /\ formatCall = NoFormat
    /\ coerceCall = CoerceIdle
    /\ CatalogIdle
    /\ ExtractorIdle
    /\ lastCall = NoCall

\* the strategy _extract_fields chooses for the field, applied to the text
Strategy ==
    /\ ~strategyCall.called
    /\ strategyCall' = [strategyCall EXCEPT !.called = TRUE,
                                            !.out = ExtractRaw(strategyCall.text, strategyCall.field_def)]
    /\ UNCHANGED <<coerceCall, catalogVars, extractorVars, lastCall, validateCall, reportCall, formatCall>>

NextStrategy == Strategy

SpecStrategy == InitStrategy /\ [][NextStrategy]_vars

(***************************************************************************)
(* Extractor.validate_extraction over tables of results.                   *)
(***************************************************************************)
MaxRows == 1

IdReport == <<"r", "1">>

IdReportBad == <<"r", "2">>

\* a required field with a validation pattern, an optional one with
\* another pattern, a required one without
ReportFields ==
    << Put(FieldDef("wages", "integer", "regex", "p_assets", <<>>), "validation", "v_digits"),
       Put([FieldDef("employer", "string", "regex", "p_boy", <<>>) EXCEPT !.required = FALSE],
           "validation", "v_letters"),
       FieldDef("year", "string", "regex", "p_date", <<>>) >>

TemplateReport ==
    Template(IdReport, ReportFields, [csv_headers |-> <<"wages", "employer", "year">>])

\* a template whose validation pattern does not compile
TemplateReportBad ==
    Template(IdReportBad,
             <<Put(FieldDef("wages", "integer", "regex", "p_assets", <<>>), "validation", "p_bad")>>,
             [csv_headers |-> <<"wages">>])

ReportDir ==
    [exists |-> TRUE,
     files |-> << File(<<"r">>, CategoryMisc, JsonObject(TemplateReport)),
                  File(<<"s">>, CategoryMisc, JsonObject(TemplateReportBad)) >>]

ReportArgs == {Str(IdReport), Str(IdReportBad), Str(IdUnknown)}

CellValues == {None, Str(<<>>), Str(<<"a", "b">>), IntVal(0, 0), IntVal(12, 0), NaN}

\* the rows after the first: they matter only for whether a column holds a
\* value at all
RECURSIVE LaterRows(_, _)
LaterRows(names, k) ==
    IF k = 0 THEN {<<>>}
    ELSE LET shorter == LaterRows(names, k - 1)
         IN  shorter \cup {Append(x, row) : x \in {y \in shorter : Len(y) = k - 1},
                                            row \in [names -> {None, IntVal(12, 0)}]}

RowLists(names) ==
    {<<>>} \cup {<<first>> \o later : first \in [names -> CellValues],
                                      later \in LaterRows(names, MaxRows - 1)}

\* the tables whose columns are some of the fields of the report template,
\* in the order of the template
ReportTables ==
    UNION {{[columns |-> SelectSeq(<<"wages", "employer", "year">>, LAMBDA c : c \in names),
             rows |-> rows] : rows \in RowLists(names)} :
              names \in SUBSET {"wages", "employer", "year"}}

InitReport ==
    /\ ReadyCatalog(ReportDir)
    /\ reportCall \in {[NoReport EXCEPT !.results = results] : results \in ReportTables}
    /\ validateCall = NoValidate
    /\ strategyCall = NoStrategy
    /\ formatCall = NoFormat
    /\ coerceCall = CoerceIdle
    /\ ExtractorIdle
    /\ lastCall = NoCall

\* report = extractor.validate_extraction(results, template)
ValidateExtraction ==
    /\ loader = "ready"
    /\ ~reportCall.called
    /\ \E template \in ReportArgs :
           reportCall' =
               [reportCall EXCEPT !.called = TRUE, !.template = template,
                                  !.out = validate_extraction(reportCall.results, _templates, template)]
    /\ UNCHANGED <<coerceCall, catalogVars, extractorVars, lastCall, validateCall, strategyCall, formatCall>>

NextReport == ValidateExtraction

SpecReport == InitReport /\ [][NextReport]_vars

(***************************************************************************)
(* Extractor._format_output over merged records.                           *)
(***************************************************************************)
LineCode1a == Str(<<"1", "a">>)

\* the fields of the DOL templates, the first with a line code, and a
\* decimal field
FormatFields ==
    << Put(DolFields[1], "line_code", LineCode1a), DolFields[2], DolFields[3],
       FieldDef("match_rate", "decimal", "regex", "p_rate", <<>>) >>

\* the sublists of a list, in its order
SubLists(fields) ==
    {SelectSeq(fields, LAMBDA f : f.field_name \in names) :
        names \in SUBSET {fields[i].field_name : i \in 1..Len(fields)}}

\* an output format of either layout, with all, some or none of the fields
\* as output columns
FormatOutputs ==
    {IF vertical THEN Put(o, "include_line_codes", TRUE) ELSE o :
        vertical \in BOOLEAN,
        o \in {[csv_headers |-> headers, date_format |-> Str(DateFormatUS)] :
                  headers \in {<<"plan_year_begin", "total_participants_boy", "total_assets_boy">>,
                               <<"total_assets_boy", "plan_year_begin">>,
                               <<>>}}}

FormatTemplates ==
    {Template(Id5500SF, fields, o) : fields \in SubLists(FormatFields), o \in FormatOutputs}

\* what a merged record holds for a field of the given data_type: None, or a
\* value coerce_value or the decoder produces
RecordValues(data_type) ==
    CASE data_type = "date" ->
            {None, Str(<<"2", "0", "2", "4", "-", "0", "1", "-", "1", "5">>), Str(<<"a", "b">>)}
      [] data_type = "currency" -> {None, IntVal(0, 0), FloatVal(12345, -1), NaN, Str(<<"a", "b">>)}
      [] data_type = "decimal" -> {None, FloatVal(12345, -1)}
      [] OTHER -> {None, IntVal(0, 0), IntVal(150, 0)}

\* the records over some of the fields
Records ==
    UNION {{r \in [names -> UNION {RecordValues(FormatFields[i].data_type) : i \in 1..Len(FormatFields)}] :
               \A i \in 1..Len(FormatFields) :
                   FormatFields[i].field_name \in names =>
                       r[FormatFields[i].field_name] \in RecordValues(FormatFields[i].data_type)} :
              names \in SUBSET {FormatFields[i].field_name : i \in 1..Len(FormatFields)}}

InitFormat ==
    /\ formatCall \in {[NoFormat EXCEPT !.data = data, !.template = template] :
                          data \in Records, template \in FormatTemplates}
    /\ validateCall = NoValidate
    /\ strategyCall = NoStrategy
    /\ reportCall = NoReport
    /\ coerceCall = CoerceIdle
    /\ CatalogIdle
    /\ ExtractorIdle
    /\ lastCall = NoCall

\* table = self._format_output(data, template)
Format ==
    /\ ~formatCall.called
    /\ formatCall' = [formatCall EXCEPT !.called = TRUE,
                                        !.out = _format_output(formatCall.data, formatCall.template)]
    /\ UNCHANGED <<coerceCall, catalogVars, extractorVars, lastCall, validateCall, strategyCall, reportCall>>

NextFormat == Format

SpecFormat == InitFormat /\ [][NextFormat]_vars

(***************************************************************************)
(* Dates shown and read back: format_date followed by parse_date, and      *)
(* parse_date over the renderings of one date in its input formats.        *)
(***************************************************************************)
DateYears == {1999, 2023, 2024}

DateMonths == {1, 2, 3, 12}

DateDays == {1, 4, 12, 13, 29, 31}

Dates ==
    CalendarDates([ok : {TRUE}, y : DateYears, m : DateMonths, d : DateDays])

\* the layouts format_map names
DisplayLayouts ==
    { <<"Y","Y","Y","Y","-","M","M","-","D","D">>,
      <<"M","M","/","D","D","/","Y","Y","Y","Y">>,
      <<"D","D","/","M","M","/","Y","Y","Y","Y">>,
      <<"Y","Y","Y","Y","/","M","M","/","D","D">>,
      <<"M","M","-","D","D","-","Y","Y","Y","Y">>,
      <<"D","D","-","M","M","-","Y","Y","Y","Y">> }

\* a date written in one of the input formats (month names in lower case,
\* which strptime reads like any other case)
RenderDirective(f, dt) ==
    CASE f = "%y" -> Pad2(dt.y % 100)
      [] f = "%B" -> MonthNames[dt.m]
      [] f = "%b" -> Take(MonthNames[dt.m], 3)
      [] OTHER -> StrftimeDirective(f, dt)

RECURSIVE Render(_, _)
Render(dt, fmt) ==
    IF fmt = <<>> THEN <<>>
    ELSE RenderDirective(Head(fmt), dt) \o Render(dt, Tail(fmt))

iso(dt) == Str(strftime(dt, IsoFormat))

\* a date to show in a layout and read back, or a date as a document writes
\* it in one of the input formats
DateCalls ==
    {[date |-> dt, layout |-> Str(L), value |-> iso(dt), shown |-> FALSE,
      data_type |-> "date", out |-> NotCalled] : dt \in Dates, L \in DisplayLayouts}
    \cup
    {[date |-> dt, layout |-> None, value |-> Str(Render(dt, input_formats[k])),
      shown |-> TRUE, data_type |-> "date", out |-> NotCalled] :
        dt \in Dates, k \in 1..Len(input_formats)}

InitDate ==
    /\ coerceCall \in DateCalls
    /\ CatalogIdle
    /\ ExtractorIdle
    /\ CallsIdle

\* shown = format_date(iso, layout)
FormatDate ==
    /\ ~coerceCall.shown
    /\ coerceCall' = [coerceCall EXCEPT
                        !.shown = TRUE,
                        !.value = format_date(coerceCall.value, coerceCall.layout)]
    /\ UNCHANGED <<catalogVars, extractorVars, callVars>>

\* coerce_value(shown, 'date')
ParseDate ==
    /\ coerceCall.shown
    /\ coerceCall.out = NotCalled
    /\ coerceCall' = [coerceCall EXCEPT
                        !.out = coerce_value(coerceCall.value, coerceCall.data_type)]
    /\ UNCHANGED <<catalogVars, extractorVars, callVars>>

NextDate == FormatDate \/ ParseDate

SpecDate == InitDate /\ [][NextDate]_vars

(***************************************************************************)
(* A catalog in use: any sequence of calls on a loader and its extractor,  *)
(* while files are added to and removed from the templates directory.      *)
(***************************************************************************)
LifecycleDirs ==
    {NoDir} \cup
    {[exists |-> TRUE, files |-> fl] :
        fl \in {<<>>, <<File5500>>, <<File5500SF>>, <<File5500, File5500SF>>,
                <<File5500SF, FileW2>>, <<FileW2, File5500Again>>,
                <<File5500, FileNull>>}}

\* the directories a loader is constructed over: each holds form-5500 and
\* none holds w2
StartDirs ==
    {[exists |-> TRUE, files |-> fl] : fl \in {<<File5500>>, <<File5500, File5500SF>>}}

Queries == {<<>>, <<"F", "o", "r", "m">>, <<"w", "2">>, <<"s", "f">>}

InitLifecycle ==
    /\ \E dir \in StartDirs : ReadyCatalog(dir)
    /\ fs \in [{"a.pdf"} -> {MissingDoc, GoodDoc}]
    /\ OCR_AVAILABLE = FALSE
    /\ extractCall = NoExtract
    /\ batchCall = NoBatch
    /\ coerceCall = CoerceIdle
    /\ CallsIdle

\* the templates directory changes on disk
ChangeDirectory ==
    /\ \E dir \in LifecycleDirs \ {templates_dir} : templates_dir' = dir
    /\ lastCall' = [op |-> "none", arg |-> None, out |-> None]
    /\ UNCHANGED <<coerceCall, loader, _templates, loadCall, extractorVars,
                   validateCall, strategyCall, reportCall, formatCall>>

\* loader.reload()
ReloadDirectory ==
    /\ loader = "ready"
    /\ LET r == _load_templates(clear(_templates), templates_dir)
       IN  /\ loadCall' = [op |-> "reload", raised |-> r.raised]
           /\ lastCall' = [op |-> "reload", arg |-> None, out |-> r.raised]
           /\ _templates' = r.templates
    /\ UNCHANGED <<coerceCall, templates_dir, loader, extractorVars,
                   validateCall, strategyCall, reportCall, formatCall>>

\* a call that reads the catalog: its name, arguments and outcome
ReadCall(op, arg, out) ==
    /\ loader = "ready"
    /\ lastCall' = [op |-> op, arg |-> arg, out |-> out]
    /\ _templates' = AfterRead(_templates)
    /\ UNCHANGED <<coerceCall, templates_dir, loader, loadCall, extractorVars,
                   validateCall, strategyCall, reportCall, formatCall>>

GetTemplate ==
    \E template_id \in TemplateArgs :
        ReadCall("get_template", template_id, get_template(_templates, template_id))

ListTemplates == ReadCall("list_templates", None, list_templates(_templates))

SearchTemplates ==
    \E query \in Queries :
        ReadCall("search_templates", Str(query), search_templates(_templates, query))

\* validate_template(get_template(template_id)) for a template of the catalog
ValidateLoaded ==
    \E template_id \in DictKeys(_templates) :
        ReadCall("validate_template", template_id,
                 validate_template(get_template(_templates, template_id)))

ExtractOne ==
    \E pdf_path \in DOMAIN fs, template \in TemplateArgs :
        ReadCall("extract", [pdf_path |-> pdf_path, template |-> template],
                 extract(fs[pdf_path], _templates, OCR_AVAILABLE, template))

ExtractMany ==
    \E pdf_path \in DOMAIN fs, template \in TemplateArgs :
        ReadCall("extract_batch", [pdf_path |-> pdf_path, template |-> template],
                 extract_batch(fs, _templates, OCR_AVAILABLE, <<pdf_path, pdf_path>>,
                               template, TRUE))

\* validate_extraction(results, template) for the table the last call of
\* extract or extract_batch returned for the same template
ValidateExtracted ==
    /\ lastCall.op \in {"extract", "extract_batch"}
    /\ lastCall.out.raised = "none"
    /\ ReadCall("validate_extraction",
                [results |-> lastCall.out.table, template |-> lastCall.arg.template,
                 of |-> lastCall.op,
                 record |-> IF lastCall.op = "extract" THEN lastCall.out.record
                            ELSE EmptyDict],
                validate_extraction(lastCall.out.table, _templates, lastCall.arg.template))

NextLifecycle ==
    \/ ChangeDirectory
    \/ ReloadDirectory
    \/ GetTemplate
    \/ ListTemplates
    \/ SearchTemplates
    \/ ValidateLoaded
    \/ ExtractOne
    \/ ExtractMany
    \/ ValidateExtracted

SpecLifecycle == InitLifecycle /\ [][NextLifecycle]_vars

(***************************************************************************)
(* A catalog shared by threads: reload() runs statement by statement while *)
(* other threads look templates up.  loadCall.next is the position of the  *)
(* reloading thread: 0 when no reload is running, else the index of the    *)
(* file the loop of _load_templates reads next.  The directory does not    *)
(* change.                                                                 *)
(***************************************************************************)
SharedDirs ==
    {[exists |-> TRUE, files |-> fl] :
        fl \in {<<File5500>>, <<File5500, File5500SF>>, <<File5500SF, FileW2>>,
                <<File5500, File5500SF, FileW2>>, <<FileW2, File5500Again>>}}

InitShared ==
    /\ templates_dir \in SharedDirs
    /\ loader = "ready"
    /\ _templates = _load_templates(<<>>, templates_dir).templates
    /\ loadCall = [op |-> "init", raised |-> "none", next |-> 0]
    /\ fs \in [{"a.pdf"} -> {MissingDoc, GoodDoc}]
    /\ OCR_AVAILABLE = FALSE
    /\ extractCall = NoExtract
    /\ batchCall = NoBatch
    /\ coerceCall = CoerceIdle
    /\ CallsIdle

\* reload(), line 254 and the check of lines 32-33
BeginReload ==
    /\ loader = "ready"
    /\ loadCall.next = 0
    /\ _templates' = clear(_templates)
    /\ loadCall' = IF ~templates_dir.exists
                   THEN [op |-> "reload", raised |-> "FileNotFoundError", next |-> 0]
                   ELSE [op |-> "reload", raised |-> "none",
                         next |-> IF Len(templates_dir.files) = 0 THEN 0 ELSE 1]
    /\ UNCHANGED <<coerceCall, templates_dir, loader, extractorVars, callVars>>

\* one iteration of the loop of _load_templates
LoadNext ==
    /\ loadCall.next > 0
    /\ LET r == LoadFile(_templates, templates_dir.files[loadCall.next])
       IN  /\ _templates' = r.templates
           /\ loadCall' = [op |-> "reload", raised |-> r.raised,
                           next |-> IF r.raised # "none" \/ loadCall.next = Len(templates_dir.files)
                                    THEN 0 ELSE loadCall.next + 1]
    /\ UNCHANGED <<coerceCall, templates_dir, loader, extractorVars, callVars>>

NextShared == BeginReload \/ LoadNext \/ GetTemplate \/ ExtractOne

SpecShared == InitShared /\ [][NextShared]_vars

(***************************************************************************)
(* The financial-value decoder over digit-string tokens.                   *)
(***************************************************************************)
MaxDigits == 10

RECURSIVE DigitStrings(_)
DigitStrings(k) ==
    IF k = 0 THEN {<<>>}
    ELSE LET shorter == DigitStrings(k - 1)
         IN  shorter \cup {Append(s, c) : s \in {x \in shorter : Len(x) = k - 1},
                                          c \in {"0", "5"}}

\* how a token begins: with a known prefix, with the marker 1234 and other
\* digits, or with neither
TokenHeads ==
    {<<>>, <<"1", "2", "3", "4", "0", "0", "0", "0">>}
    \cup {PlaceholderPrefixes[i] : i \in 1..Len(PlaceholderPrefixes)}

\* the token of the documented scenario
ScenarioToken ==
    <<"-", "1", "2", "3", "4", "5", "6", "7", "8", "1", "9", "0", "0", "4", "1", "3", "2">>

Tokens ==
    {sign \o head \o digits :
        sign \in {<<>>, <<"-">>}, head \in TokenHeads, digits \in DigitStrings(MaxDigits)}
    \cup {ScenarioToken}

InitDecode ==
    /\ lastCall \in {[op |-> "none", arg |-> Str(token), out |-> None] : token \in Tokens}
    /\ validateCall = NoValidate
    /\ strategyCall = NoStrategy
    /\ reportCall = NoReport
    /\ formatCall = NoFormat
    /\ coerceCall = CoerceIdle
    /\ CatalogIdle
    /\ ExtractorIdle

\* self._decode_dol_financial_value(text)
Decode ==
    /\ lastCall.op = "none"
    /\ lastCall' = [lastCall EXCEPT
                      !.op = "_decode_dol_financial_value",
                      !.out = _decode_dol_financial_value(lastCall.arg.s)]
    /\ UNCHANGED <<coerceCall, catalogVars, extractorVars,
                   validateCall, strategyCall, reportCall, formatCall>>

NextDecode == Decode

SpecDecode == InitDecode /\ [][NextDecode]_vars

(***************************************************************************)
(* _extract_fields over the fields of a validated template.                *)
(***************************************************************************)
\* a default_value that coerces to a value of the data_type
DefaultOf(data_type) == IF data_type = "integer" THEN Str(<<"1", "2">>) ELSE DefaultNA

\* what a field declares for its extraction_method
MethodProperties(method) ==
    CASE method = "regex" -> [regex_pattern |-> "p1"]
      [] method = "coordinates" -> [regex_pattern |-> "p1", coordinates |-> EmptyDict]
      [] method = "keyword_proximity" -> [keywords |-> <<"k1">>]
      [] OTHER -> EmptyDict

\* fields with every required property: one for each extraction_method that
\* validate_template accepts and one for a method it rejects, with and
\* without a default_value
CompleteFields(field_name) ==
    UNION {{[field_name |-> field_name, display_name |-> field_name,
             data_type |-> data_type, required |-> FALSE,
             extraction_method |-> method] @@ MethodProperties(method),
            [field_name |-> field_name, display_name |-> field_name,
             data_type |-> data_type, required |-> FALSE,
             extraction_method |-> method, default_value |-> DefaultOf(data_type)]
                @@ MethodProperties(method)} :
              method \in valid_methods \cup {"ocr"}, data_type \in {"string", "integer"}}

FieldsTemplates ==
    {Template(IdW2, fields, [csv_headers |-> <<"wages">>]) :
        fields \in {<<f>> : f \in CompleteFields("wages")}
                   \cup {<<f, g>> : f \in CompleteFields("wages"),
                                    g \in CompleteFields("employer")}}

InitFields ==
    /\ lastCall \in {[op |-> "none", arg |-> [text |-> text, template |-> template],
                      out |-> None] :
                        text \in TextsOver({"p1", "k1"}), template \in FieldsTemplates}
    /\ validateCall = NoValidate
    /\ strategyCall = NoStrategy
    /\ reportCall = NoReport
    /\ formatCall = NoFormat
    /\ coerceCall = CoerceIdle
    /\ CatalogIdle
    /\ ExtractorIdle

\* text_data = self._extract_fields(text, template_def)
ExtractFields ==
    /\ lastCall.op = "none"
    /\ lastCall' = [lastCall EXCEPT
                      !.op = "_extract_fields",
                      !.out = _extract_fields(lastCall.arg.text, lastCall.arg.template)]
    /\ UNCHANGED <<coerceCall, catalogVars, extractorVars,
                   validateCall, strategyCall, reportCall, formatCall>>

NextFields == ExtractFields

SpecFields == InitFields /\ [][NextFields]_vars

(***************************************************************************)
(* Properties of Extractor.extract (SpecExtract).                          *)
(***************************************************************************)
\* the document, the template and the two passes of the last call
CallDoc == fs[extractCall.pdf_path]

CallTemplate == get_template(_templates, extractCall.template)

CallDecoder == _extract_dol_form_data(CallDoc, OCR_AVAILABLE)

\* what the decoder contributed: nothing when it raised
CallDolData == IF CallDecoder.raised # "none" THEN EmptyDict ELSE CallDecoder.data

CallGeneric == _extract_fields(_extract_pdf_text(CallDoc).text, CallTemplate).data

\* extract returned a table for a decoder-eligible template
DolCallReturned ==
    /\ extractCall.called
    /\ extractCall.out.raised = "none"
    /\ extractCall.template \in DolTemplates

\* C1: for a decoder-eligible template, every field for which both the
\* decoder and the generic engine produce a non-null value carries the
\* decoder's value in the record handed to _format_output.
C1_DecoderValueWins ==
    DolCallReturned =>
        \A f \in DOMAIN CallDolData \cap DOMAIN CallGeneric :
            (CallDolData[f].t # "none" /\ CallGeneric[f].t # "none")
                => extractCall.out.record[f] = CallDolData[f]

\* a call in which the two passes found different values for one field
C1_Witness ==
    /\ DolCallReturned
    /\ \E f \in DOMAIN CallDolData \cap DOMAIN CallGeneric :
           /\ CallDolData[f].t # "none"
           /\ CallGeneric[f].t # "none"
           /\ CallDolData[f] # CallGeneric[f]
           /\ extractCall.out.record[f] = CallDolData[f]

\* the fields the decoder has no value for: absent, or null
DecoderSilent(f) == f \notin DOMAIN CallDolData \/ CallDolData[f].t = "none"

\* C2: for a decoder-eligible template, every field for which the decoder's
\* value is null or absent (also when the decoder raised) carries exactly
\* the generic engine's value in the merged record, and the generic engine's
\* own map is the same after the merge as before.
C2_GenericValueKept ==
    DolCallReturned =>
        /\ \A f \in DOMAIN CallGeneric :
               DecoderSilent(f) =>
                   /\ f \in DOMAIN extractCall.out.record
                   /\ extractCall.out.record[f] = CallGeneric[f]
        /\ \A f \in DOMAIN extractCall.out.record :
               DecoderSilent(f) => f \in DOMAIN CallGeneric
        /\ extractCall.out.text_data = CallGeneric

\* a call in which the decoder's value of a field is null and the generic
\* engine's is not
C2_Witness ==
    /\ DolCallReturned
    /\ \E f \in DOMAIN CallDolData \cap DOMAIN CallGeneric :
           /\ CallDolData[f].t = "none"
           /\ CallGeneric[f].t # "none"
           /\ extractCall.out.record[f] = CallGeneric[f]

IsIsoDate(v) ==
    /\ v.t = "str"
    /\ Len(v.s) = 10
    /\ v.s[5] = "-" /\ v.s[8] = "-"
    /\ \A i \in {1, 2, 3, 4, 6, 7, 9, 10} : v.s[i] \in Digits

\* the value is of the type that coercion to data_type yields
IsCoerced(v, data_type) ==
    CASE data_type = "date" -> IsIsoDate(v)
      [] data_type = "integer" -> v.t = "int"
      [] data_type \in {"currency", "decimal", "percentage"} ->
            v.t \in {"float", "float_inf", "float_nan"}
      [] data_type = "boolean" -> v.t = "bool"
      [] OTHER -> v.t = "str" /\ v = clean_text(v)

\* C3: on every path of extract, every non-null value of the record handed
\* to _format_output is of the coerced form of its field's data_type; a
\* date-typed field holds an ISO YYYY-MM-DD string, never the matched text.
C3_RecordIsCoerced ==
    (extractCall.called /\ extractCall.out.raised = "none") =>
        \A i \in 1..Len(CallTemplate.fields) :
            LET field_def == CallTemplate.fields[i]
                value == Get(extractCall.out.record, field_def.field_name, None)
            IN  value.t # "none" => IsCoerced(value, field_def.data_type)

\* C5: extract called with a path that does not exist fails with
\* FileNotFoundError before any template lookup, text extraction, decoder
\* pass or formatting, whether or not the template identifier is known.
C5_MissingDocumentFirst ==
    (extractCall.called /\ ~CallDoc.exists) =>
        /\ extractCall.out.raised = "FileNotFoundError"
        /\ extractCall.out.steps = <<"exists">>
        /\ extractCall.out.table = EmptyTable
        /\ extractCall.out.record = EmptyDict

\* a call with a missing document and an unknown template
C5_Witness ==
    /\ extractCall.called
    /\ ~CallDoc.exists
    /\ extractCall.template \notin DictKeys(_templates)
    /\ extractCall.out.raised = "FileNotFoundError"

\* extract was called with an existing document and an unknown template
UnknownTemplateCall ==
    /\ extractCall.called
    /\ CallDoc.exists
    /\ extractCall.template \notin DictKeys(_templates)

ListedIds == {extractCall.out.ids[i] : i \in 1..Len(extractCall.out.ids)}

\* C6 as claimed: an existing document and an identifier absent from the
\* catalog give a template-not-found error that carries every identifier of
\* the catalog, and no text extraction is performed.
C6_EveryIdListed ==
    UnknownTemplateCall =>
        /\ extractCall.out.raised = "ValueError"
        /\ ListedIds = DictKeys(_templates)
        /\ "_extract_pdf_text" \notin
               {extractCall.out.steps[i] : i \in 1..Len(extractCall.out.steps)}

SummaryOf(id) == TemplateSummary(id, DictGet(_templates, id))

\* C6 as amended: the error carries the identifiers of the first ten
\* templates in the order of list_templates (category, then name), which is
\* every identifier when the catalog holds at most ten, and no text
\* extraction is performed.
C6_FirstTenIdsListed ==
    UnknownTemplateCall =>
        /\ extractCall.out.raised = "ValueError"
        /\ ListedIds \subseteq DictKeys(_templates)
        /\ Len(extractCall.out.ids) = Cardinality(ListedIds)
        /\ Len(extractCall.out.ids) = Min(10, Cardinality(DictKeys(_templates)))
        /\ \A a \in ListedIds, b \in DictKeys(_templates) \ ListedIds :
               ~SummaryLess(SummaryOf(b), SummaryOf(a))
        /\ \A i, j \in 1..Len(extractCall.out.ids) :
               i < j => ~SummaryLess(SummaryOf(extractCall.out.ids[j]),
                                     SummaryOf(extractCall.out.ids[i]))
        /\ "_extract_pdf_text" \notin
               {extractCall.out.steps[i] : i \in 1..Len(extractCall.out.steps)}

\* an unknown template under a catalog of more than ten templates
C6_Witness ==
    /\ UnknownTemplateCall
    /\ Cardinality(DictKeys(_templates)) > 10
    /\ Len(extractCall.out.ids) = 10

\* C9: for an existing document and a known template extract always returns
\* a record: no failure of the decoder, of the text extraction, of a field
\* strategy or of a coercion aborts the request.
C9_AlwaysReturns ==
    (/\ extractCall.called
     /\ CallDoc.exists
     /\ extractCall.template \in DictKeys(_templates))
        => extractCall.out.raised = "none"

(***************************************************************************)
(* Properties of coerce_value (SpecCoerce).                                *)
(***************************************************************************)
\* C4: coerce_value never raises, for every input string and every
\* data_type.
C4_CoerceNeverRaises == coerceCall.out.raised \in {"pending", "none"}

(***************************************************************************)
(* Properties of Extractor.extract_batch (SpecBatch).                      *)
(***************************************************************************)
BatchExtract(pdf_path) ==
    extract(fs[pdf_path], _templates, OCR_AVAILABLE, batchCall.template)

\* the rows of the documents of a list that extract succeeds on, in order,
\* each with its document in _source_file
RECURSIVE RowsOfSucceeded(_)
RowsOfSucceeded(pdf_paths) ==
    IF pdf_paths = <<>> THEN <<>>
    ELSE LET result == BatchExtract(Head(pdf_paths))
         IN  (IF result.raised # "none" THEN <<>>
              ELSE [i \in 1..Len(result.table.rows) |->
                       Put(result.table.rows[i], "_source_file", Head(pdf_paths))])
             \o RowsOfSucceeded(Tail(pdf_paths))

\* C7: with continue_on_error = true the call does not raise, attempts every
\* document in list order, and returns the rows of exactly the documents
\* that succeeded, in input order, each tagged with its document.
C7_ContinueOnError ==
    (batchCall.called /\ batchCall.continue_on_error) =>
        /\ batchCall.out.raised = "none"
        /\ batchCall.out.attempted = batchCall.pdf_paths
        /\ batchCall.out.table.rows = RowsOfSucceeded(batchCall.pdf_paths)
        /\ \A i \in 1..Len(batchCall.out.table.rows) :
               "_source_file" \in DOMAIN batchCall.out.table.rows[i]

\* a list whose first document fails and whose second succeeds
C7_Witness ==
    /\ batchCall.called
    /\ batchCall.continue_on_error
    /\ Len(batchCall.pdf_paths) >= 2
    /\ BatchExtract(batchCall.pdf_paths[1]).raised # "none"
    /\ BatchExtract(batchCall.pdf_paths[2]).raised = "none"
    /\ batchCall.out.table.rows # <<>>
    /\ \A i \in 1..Len(batchCall.out.table.rows) :
           batchCall.out.table.rows[i]["_source_file"] = batchCall.pdf_paths[2]

Failing(pdf_paths) ==
    {i \in 1..Len(pdf_paths) : BatchExtract(pdf_paths[i]).raised # "none"}

FirstFailing(pdf_paths) ==
    CHOOSE i \in Failing(pdf_paths) : \A j \in Failing(pdf_paths) : i <= j

\* C8: with continue_on_error = false the exception of the first failing
\* document propagates, no document after it is attempted, and no partial
\* result is returned.
C8_StopOnError ==
    (/\ batchCall.called
     /\ ~batchCall.continue_on_error
     /\ Failing(batchCall.pdf_paths) # {})
        => LET k == FirstFailing(batchCall.pdf_paths)
           IN  /\ batchCall.out.raised = BatchExtract(batchCall.pdf_paths[k]).raised
               /\ batchCall.out.attempted = Take(batchCall.pdf_paths, k)
               /\ batchCall.out.table = EmptyTable

\* two failing documents with different exceptions: the first one's is raised
\* and the second document is not attempted
C8_Witness ==
    /\ batchCall.called
    /\ ~batchCall.continue_on_error
    /\ Len(batchCall.pdf_paths) >= 2
    /\ Failing(batchCall.pdf_paths) = 1..Len(batchCall.pdf_paths)
    /\ BatchExtract(batchCall.pdf_paths[1]).raised
           # BatchExtract(batchCall.pdf_paths[2]).raised
    /\ batchCall.out.raised = BatchExtract(batchCall.pdf_paths[1]).raised
    /\ batchCall.out.attempted = <<batchCall.pdf_paths[1]>>

(***************************************************************************)
(* Properties of the catalog (SpecCatalog).                                *)
(***************************************************************************)
\* the files of the directory that hold a template: an object with an
\* identifier and a field list, under a name that is not reserved
IsTemplateFile(f) ==
    /\ f.name[1] # "_"
    /\ f.json.kind = "object"
    /\ {"template_id", "fields"} \subseteq DOMAIN f.json.obj
    /\ Hashable(f.json.obj.template_id)

\* the malformed files the rule speaks of: a text that is no JSON, a JSON
\* value that is no object, an object without template_id or without fields
IsMalformedFile(f) ==
    \/ f.json.kind = "invalid"
    \/ f.json.kind \notin {"invalid", "not_utf8", "object"}
    \/ /\ f.json.kind = "object"
       /\ ~({"template_id", "fields"} \subseteq DOMAIN f.json.obj)

\* C10: loading never aborts because of one bad file: for any set of files of
\* which some are malformed (no JSON, no object at the top level, an object
\* without template_id or fields) and the others well-formed, loading
\* completes without raising, and every well-formed template of the set is
\* indexed under its identifier.
C10_LoadNeverAborts ==
    (/\ loadCall.op # "none"
     /\ templates_dir.exists
     /\ \A i \in 1..Len(templates_dir.files) :
            \/ IsTemplateFile(templates_dir.files[i])
            \/ IsMalformedFile(templates_dir.files[i]))
        => /\ loadCall.raised = "none"
           /\ \A i \in 1..Len(templates_dir.files) :
                  IsTemplateFile(templates_dir.files[i]) =>
                      templates_dir.files[i].json.obj.template_id
                          \in DictKeys(_templates)

\* C11: after any sequence of load and reload operations every template held
\* in the catalog passes validation: validate_template returns an empty error
\* list for every template that get_template can return.
C11_CatalogTemplatesValid ==
    \A template_id \in DictKeys(_templates) :
        validate_template(get_template(_templates, template_id)) = <<>>

(***************************************************************************)
(* Properties of validate_template (SpecValidate).                         *)
(***************************************************************************)
ValidatedFields == Get(validateCall.template, "fields", <<>>)

FieldNames == {Get(ValidatedFields[i], "field_name", "") : i \in 1..Len(ValidatedFields)}

Headers == Get(Get(validateCall.template, "output_format", EmptyDict), "csv_headers", <<>>)

\* C12: validate_template reports an error whenever csv_headers names a column
\* that is not the field_name of a field of the template; a template with no
\* errors has every output column among its fields.
C12_GhostColumnReported ==
    (/\ validateCall.called
     /\ \E i \in 1..Len(Headers) : Headers[i] \notin FieldNames)
        => validateCall.errors # <<>>

ValidatedId == Get(validateCall.template, "template_id", Str(<<>>)).s

IdErrorReported ==
    \E i \in 1..Len(validateCall.errors) : validateCall.errors[i].what = "template_id"

\* C13: validate_template reports an identifier error for every non-empty
\* template_id that contains a character other than a letter, a digit or a
\* hyphen (an underscore, a space), and reports none when the identifier uses
\* only those characters.
C13_IdentifierCharacters ==
    (validateCall.called /\ ValidatedId # <<>>)
        => (IdErrorReported <=>
                \E i \in 1..Len(ValidatedId) :
                    ValidatedId[i] \notin Letters \cup Digits \cup {"-"})

\* an error of the given wording is reported for the field at position i
FieldErrorReported(i, error) ==
    \E j \in 1..Len(validateCall.errors) :
        /\ validateCall.errors[j].index = i - 1
        /\ validateCall.errors[j].error = error

AnyFieldError(i) ==
    \E j \in 1..Len(validateCall.errors) : validateCall.errors[j].index = i - 1

\* C14: validate_template reports an error for every field whose
\* extraction_method is regex but that carries no regex_pattern, for every
\* field whose extraction_method is coordinates but that carries no
\* coordinates, and for every data_type or extraction_method outside its
\* enum.
C14_FieldRulesReported ==
    validateCall.called =>
        \A i \in 1..Len(ValidatedFields) :
            LET field == ValidatedFields[i]
            IN  /\ (Get(field, "extraction_method", "") = "regex"
                        /\ "regex_pattern" \notin DOMAIN field)
                    => FieldErrorReported(i, "regex extraction_method requires regex_pattern")
                /\ (Get(field, "extraction_method", "") = "coordinates"
                        /\ "coordinates" \notin DOMAIN field)
                    => FieldErrorReported(i, "coordinates extraction_method requires coordinates object")
                /\ ("data_type" \notin DOMAIN field \/ field.data_type \notin valid_types)
                    => AnyFieldError(i)
                /\ ("extraction_method" \notin DOMAIN field
                        \/ field.extraction_method \notin valid_methods)
                    => AnyFieldError(i)

(***************************************************************************)
(* Properties of the extraction strategies (SpecStrategy).                 *)
(***************************************************************************)
\* the patterns of the field in declared order: the primary one, then the
\* fallbacks
DeclaredPatterns ==
    <<Get(strategyCall.field_def, "regex_pattern", "")>>
        \o Get(strategyCall.field_def, "fallback_patterns", <<>>)

\* the capture of the i-th declared pattern in the text is non-empty
Captured(i) ==
    /\ DeclaredPatterns[i] \in DOMAIN strategyCall.text
    /\ strategyCall.text[DeclaredPatterns[i]].s # <<>>

RegexCall ==
    /\ strategyCall.called
    /\ strategyCall.field_def.extraction_method = "regex"

\* C15: pattern extraction tries the primary pattern and then the fallback
\* patterns in declared order and returns the result of the first that yields
\* a non-empty capture: when the primary pattern and a fallback both capture,
\* the primary pattern's capture is returned; among fallbacks the earliest
\* declared one wins.
C15_FirstPatternWins ==
    RegexCall =>
        \A i \in 1..Len(DeclaredPatterns) :
            (Captured(i) /\ \A j \in 1..(i - 1) : ~Captured(j))
                => strategyCall.out =
                       Returned(clean_text(strategyCall.text[DeclaredPatterns[i]]))

\* the primary pattern and a fallback capture different values and the
\* primary one is returned
C15_Witness ==
    /\ RegexCall
    /\ Captured(1)
    /\ \E j \in 2..Len(DeclaredPatterns) :
           /\ Captured(j)
           /\ clean_text(strategyCall.text[DeclaredPatterns[j]])
                  # clean_text(strategyCall.text[DeclaredPatterns[1]])
    /\ strategyCall.out = Returned(clean_text(strategyCall.text[DeclaredPatterns[1]]))

DeclaredKeywords == Get(strategyCall.field_def, "keywords", <<>>)

\* nothing the field declares finds a value in the text: no pattern of a
\* regex or coordinates field has a non-empty capture, no keyword of a
\* keyword_proximity field occurs
Miss ==
    IF strategyCall.field_def.extraction_method = "keyword_proximity"
    THEN \A i \in 1..Len(DeclaredKeywords) : DeclaredKeywords[i] \notin DOMAIN strategyCall.text
    ELSE \A i \in 1..Len(DeclaredPatterns) : ~Captured(i)

\* C16: a per-field miss is silent: for the regex, coordinates and
\* keyword_proximity strategies, when no pattern or keyword matches the text
\* (or a pattern does not compile), the strategy raises nothing and yields the
\* field's default_value, or None when the field declares none.
C16_MissYieldsDefault ==
    (strategyCall.called /\ Miss)
        => strategyCall.out = Returned(Get(strategyCall.field_def, "default_value", None))

\* a field whose primary pattern does not compile, over a text in which a
\* valid pattern would capture, yields its declared default
C16_Witness ==
    /\ strategyCall.called
    /\ Miss
    /\ DeclaredPatterns[1] \in InvalidPatterns
    /\ DOMAIN strategyCall.text # {}
    /\ "default_value" \in DOMAIN strategyCall.field_def
    /\ strategyCall.out = Returned(DefaultNA)

(***************************************************************************)
(* Properties of validate_extraction (SpecReport).                         *)
(***************************************************************************)
ReportedFields == Get(get_template(_templates, reportCall.template), "fields", <<>>)

\* the call returned a report for a template of the catalog
Reported ==
    /\ reportCall.called
    /\ reportCall.out.raised = "none"
    /\ reportCall.template \in DictKeys(_templates)

TheReport == reportCall.out.val

IsColumn(field_name) ==
    \E c \in 1..Len(reportCall.results.columns) : reportCall.results.columns[c] = field_name

\* the positions in the error list of the errors that name the i-th field
ErrorsNaming(i) ==
    {j \in 1..Len(TheReport.errors) : TheReport.errors[j].what = ReportedFields[i].field_name}

FirstCell(field_name) ==
    IF Len(reportCall.results.rows) > 0 THEN reportCall.results.rows[1][field_name] ELSE None

\* C17: for every template field that is required and absent from the record
\* the report contains exactly one error naming that field and valid is
\* false; a required field that is present with a non-empty value contributes
\* no error.
C17_RequiredAbsentIsOneError ==
    Reported =>
        \A i \in 1..Len(ReportedFields) :
            ReportedFields[i].required =>
                /\ ~IsColumn(ReportedFields[i].field_name)
                       => /\ Cardinality(ErrorsNaming(i)) = 1
                          /\ TheReport.valid = FALSE
                /\ (/\ IsColumn(ReportedFields[i].field_name)
                    /\ FirstCell(ReportedFields[i].field_name).t # "none"
                    /\ FirstCell(ReportedFields[i].field_name) # Str(<<>>))
                       => ErrorsNaming(i) = {}

\* a report over a table that lacks one required field and holds a value for
\* the other
C17_Witness ==
    /\ Reported
    /\ reportCall.template = Str(IdReport)
    /\ ~IsColumn("wages")
    /\ IsColumn("year")
    /\ FirstCell("year") = Str(<<"a", "b">>)
    /\ Len(TheReport.errors) = 1
    /\ TheReport.errors[1].what = "wages"
    /\ ~TheReport.valid

WarningsNaming(i) ==
    {j \in 1..Len(TheReport.warnings) : TheReport.warnings[j].what = ReportedFields[i].field_name}

\* the value is empty or null, as the required check reads it (line 755)
IsEmpty(value) == value.t = "none" \/ value = Str(<<>>)

\* the i-th field declares a validation pattern that compiles and is a
\* column of the table
Validated(i) ==
    /\ "validation" \in DOMAIN ReportedFields[i]
    /\ ReportedFields[i].validation \notin InvalidPatterns
    /\ IsColumn(ReportedFields[i].field_name)

Mismatch(i) ==
    ~Truthy(re_match(ReportedFields[i].validation,
                     PyStr(FirstCell(ReportedFields[i].field_name))).val)

\* C18: valid is true exactly when the error list is empty; a declared
\* validation pattern that does not match a non-empty value adds a warning
\* and never an error, so pattern mismatches alone never make the report
\* invalid, and an empty or null value is never tested against the pattern.
C18_MismatchIsWarning ==
    (reportCall.called /\ reportCall.out.raised = "none")
        => /\ TheReport.valid <=> (TheReport.errors = <<>>)
           /\ Reported =>
                \A i \in 1..Len(ReportedFields) :
                    Validated(i) =>
                        IF IsEmpty(FirstCell(ReportedFields[i].field_name))
                        THEN WarningsNaming(i) = {}
                        ELSE Mismatch(i) => (WarningsNaming(i) # {} /\ ErrorsNaming(i) = {})

\* C19: every report returned by validate_extraction, on every path including
\* the one where the template identifier is not in the catalog, has all five
\* components: valid, errors, warnings, fields_extracted and fields_total.
C19_ReportHasFiveComponents ==
    (reportCall.called /\ reportCall.out.raised = "none")
        => DOMAIN TheReport = {"valid", "errors", "warnings", "fields_extracted", "fields_total"}

(***************************************************************************)
(* Properties of _format_output (SpecFormat).                              *)
(***************************************************************************)
FormattedFields == Get(formatCall.template, "fields", <<>>)

\* the call was made for a template of the vertical (line-code) layout
VerticalCall ==
    /\ formatCall.called
    /\ Get(formatCall.template.output_format, "include_line_codes", FALSE)

\* C20: in the vertical layout the output has exactly one row per field the
\* template declares, in declared order and whatever the output columns are,
\* each row carrying line_code, field_name, display_name and value; the value
\* of a row is never null: a field missing from the record renders as the
\* empty string.
C20_VerticalRowPerField ==
    VerticalCall =>
        /\ Len(formatCall.out.rows) = Len(FormattedFields)
        /\ \A i \in 1..Len(FormattedFields) :
               LET row == formatCall.out.rows[i]
                   field_def == FormattedFields[i]
               IN  /\ DOMAIN row = {"line_code", "field_name", "display_name", "value"}
                   /\ row.field_name = field_def.field_name
                   /\ row.line_code = Get(field_def, "line_code", Str(<<"-">>))
                   /\ row.display_name = field_def.display_name
                   /\ row.value.t # "none"
                   /\ Get(formatCall.data, field_def.field_name, None) = None
                          => row.value = Str(<<>>)

\* three declared fields, two output columns, a record without the third
\* field: three rows, the third with the empty string
C20_Witness ==
    /\ VerticalCall
    /\ Len(FormattedFields) = 3
    /\ Len(formatCall.template.output_format.csv_headers) = 2
    /\ FormattedFields[3].field_name \notin DOMAIN formatCall.data
    /\ FormattedFields[1].field_name \in DOMAIN formatCall.data
    /\ Len(formatCall.out.rows) = 3
    /\ formatCall.out.rows[3].value = Str(<<>>)
    /\ formatCall.out.rows[1].value # Str(<<>>)

\* the value the record holds for the i-th declared field
RecordValue(i) == Get(formatCall.data, FormattedFields[i].field_name, None)

\* isinstance(value, (int, float)); a bool is an int
IsNumber(value) == value.t \in {"int", "float", "float_inf", "float_nan", "bool"}

\* C21 as stated: in the vertical layout every non-null numeric value of a
\* field whose data_type is currency or decimal is rendered as a display
\* string, not left as a raw number.
C21_CurrencyAndDecimalRendered ==
    VerticalCall =>
        \A i \in 1..Len(FormattedFields) :
            (FormattedFields[i].data_type \in {"currency", "decimal"} /\ IsNumber(RecordValue(i)))
                => formatCall.out.rows[i].value.t = "str"

\* C21, amended: in the vertical layout every non-null numeric value of a
\* field whose data_type is currency is rendered as a display string with a
\* dollar sign, thousands separators and no decimal places; numeric values of
\* fields of any other data_type, decimal included, are left as they are.
C21_OnlyCurrencyRendered ==
    VerticalCall =>
        \A i \in 1..Len(FormattedFields) :
            IsNumber(RecordValue(i)) =>
                IF FormattedFields[i].data_type = "currency"
                THEN /\ formatCall.out.rows[i].value = FormatCurrency(RecordValue(i))
                     /\ formatCall.out.rows[i].value.s[1] = "$"
                     /\ \A k \in 1..Len(formatCall.out.rows[i].value.s) :
                            formatCall.out.rows[i].value.s[k] # "."
                ELSE formatCall.out.rows[i].value = RecordValue(i)

\* 1234.5 in a currency field is rendered as $1,234 while 1234.5 in a decimal
\* field stays a number
C21_Witness ==
    /\ VerticalCall
    /\ \E i, j \in 1..Len(FormattedFields) :
           /\ FormattedFields[i].data_type = "currency"
           /\ RecordValue(i) = FloatVal(12345, -1)
           /\ formatCall.out.rows[i].value = Str(<<"$", "1", ",", "2", "3", "4">>)
           /\ FormattedFields[j].data_type = "decimal"
           /\ RecordValue(j) = FloatVal(12345, -1)
           /\ formatCall.out.rows[j].value = FloatVal(12345, -1)

Headers22 == formatCall.template.output_format.csv_headers

\* the same record and field list formatted in each of the two layouts
VerticalOut ==
    _format_output(formatCall.data,
                   [formatCall.template EXCEPT !.output_format = Put(@, "include_line_codes", TRUE)])

HorizontalOut ==
    _format_output(formatCall.data,
                   [formatCall.template EXCEPT !.output_format = Without(@, "include_line_codes")])

IsHorizontalColumn(field_name) ==
    \E c \in 1..Len(HorizontalOut.columns) : HorizontalOut.columns[c] = field_name

\* a cell without a value: null in the horizontal layout, '' in the vertical
IsMissing(value) == value = None \/ value = Str(<<>>)

\* the vertical value v and the horizontal value h of a field are the same
\* value, up to the display formatting of the vertical layout
SameUnderlying(v, h) ==
    \/ IsMissing(v) /\ IsMissing(h)
    \/ ~IsMissing(v) /\ ~IsMissing(h) /\ (v = h \/ (IsNumber(h) /\ v = FormatCurrency(h)))

C23_DateRoundTrip ==
    coerceCall.out # NotCalled => coerceCall.out = Returned(iso(coerceCall.date))

(***************************************************************************)
(* Properties of a catalog in use (SpecLifecycle).                         *)
(***************************************************************************)
\* C24: no call of get_template, list_templates, search_templates,
\* validate_template, extract, extract_batch or validate_extraction changes
\* the identifiers of the catalog or the content of a loaded template: a step
\* that changes the catalog is a call of reload.
C24_OnlyReloadChangesCatalog ==
    [][_templates' # _templates => lastCall'.op = "reload"]_vars

\* an extraction has run over a catalog that was never reloaded and still
\* holds what was loaded at construction, although the directory has changed
C24_Witness ==
    /\ lastCall.op = "extract"
    /\ lastCall.out.raised = "none"
    /\ loadCall.op = "init"
    /\ DictKeys(_templates) = {Str(Id5500), Str(Id5500SF)}
    /\ templates_dir.exists
    /\ templates_dir.files = <<FileW2, File5500Again>>

\* what a fresh load of the directory indexes now
FreshLoad == _load_templates(<<>>, templates_dir)

\* C25: when reload() has returned, the catalog holds exactly the templates
\* a fresh load of the directory indexes at that moment: the template of a
\* file removed since the previous load is gone and the template of a file
\* added since is there.
C25_ReloadIsFreshLoad ==
    lastCall.op = "reload" /\ lastCall.out = "none" =>
        /\ FreshLoad.raised = "none"
        /\ _templates = FreshLoad.templates
        /\ \A template_id \in TemplateArgs :
               get_template(_templates, template_id) =
                   get_template(FreshLoad.templates, template_id)

\* reload has returned over a directory from which the file of form-5500,
\* loaded at construction, was removed and to which the file of w2 was added
C25_Witness ==
    /\ lastCall.op = "reload"
    /\ lastCall.out = "none"
    /\ templates_dir.exists
    /\ templates_dir.files = <<File5500SF, FileW2>>
    /\ get_template(_templates, Str(Id5500)) = EmptyDict
    /\ get_template(_templates, Str(IdW2)) # EmptyDict

(***************************************************************************)
(* Properties of a catalog shared by threads (SpecShared).                 *)
(***************************************************************************)
\* the identifiers of the templates on disk, before and after every reload
OnDisk == DictKeys(_load_templates(<<>>, templates_dir).templates)

\* C26: a lookup by get_template or by extract that runs while other threads
\* look up or reload the unchanged directory never finds a template missing
\* that is on disk before and after the reload.
C26_LookupNeverMissesLoaded ==
    /\ lastCall.op = "get_template" /\ lastCall.arg \in OnDisk =>
           lastCall.out # EmptyDict
    /\ lastCall.op = "extract" /\ lastCall.arg.template \in OnDisk =>
           lastCall.out.raised # "ValueError"

(***************************************************************************)
(* Properties of _decode_dol_financial_value (SpecDecode).                 *)
(***************************************************************************)
Decoded == lastCall.op = "_decode_dol_financial_value"

\* the digits of the token after its minus signs
TokenDigits == SelectSeq(lastCall.arg.s, LAMBDA c : c # "-")

\* the known prefixes, longest first, and the value lengths in their order
KnownPrefix(p) == Take(<<"1", "2", "3", "4", "5", "6", "7", "8", "9">>, 10 - p)

LengthOrder == <<8, 9, 7, 6, 10>>

Significant(piece) == StripZeros(piece)

\* the number a piece of digits stands for lies in [low, 500000000]
Plausible(piece, low) ==
    /\ Len(Significant(piece)) <= 9
    /\ low <= DigitsVal(Significant(piece))
    /\ DigitsVal(Significant(piece)) <= 500000000

Remainder(p) == Drop(TokenDigits, Len(KnownPrefix(p)))

\* the candidates under the known prefixes: <<p, l>> is the first
\* LengthOrder[l] digits after the p-th prefix
PrefixCandidates ==
    {c \in (1..3) \X (1..5) :
        /\ IsPrefix(KnownPrefix(c[1]), TokenDigits)
        /\ Len(Remainder(c[1])) >= 5
        /\ Len(Remainder(c[1])) >= LengthOrder[c[2]]
        /\ Plausible(Take(Remainder(c[1]), LengthOrder[c[2]]), 100)}

Earlier(c, d) == c[1] < d[1] \/ (c[1] = d[1] /\ c[2] <= d[2])

FirstCandidate == CHOOSE c \in PrefixCandidates : \A d \in PrefixCandidates : Earlier(c, d)

\* the candidates of the sliding window over a token that begins with 1234
WindowCandidates ==
    {c \in (4..11) \X {8, 9, 7, 6} :
        /\ IsPrefix(<<"1", "2", "3", "4">>, TokenDigits)
        /\ Len(TokenDigits) >= 15
        /\ c[1] + c[2] <= Len(TokenDigits)
        /\ Plausible(SubSeq(TokenDigits, c[1] + 1, c[1] + c[2]), 10000)}

\* the value of a float without a fraction
FloatOf(value) == value.n * Pow10(value.e)

\* C27: for every digit-string token, with or without a leading minus sign,
\* the decoder returns null or a value between 100 and 500000000; when a
\* candidate under a known prefix lies in the window, the result is the first
\* such candidate, the prefixes taken longest first (123456789, 12345678,
\* 1234567) and the value lengths in the order 8, 9, 7, 6, 10; a token that
\* matches no known prefix and has no candidate in its window decodes to null.
C27_DecodedValueInWindow ==
    Decoded =>
        /\ \/ lastCall.out = None
           \/ /\ lastCall.out.t = "float"
              /\ lastCall.out.e >= 0
              /\ 100 <= FloatOf(lastCall.out)
              /\ FloatOf(lastCall.out) <= 500000000
        /\ PrefixCandidates # {} =>
               /\ lastCall.out # None
               /\ FloatOf(lastCall.out) =
                      DigitsVal(Significant(Take(Remainder(FirstCandidate[1]),
                                                 LengthOrder[FirstCandidate[2]])))
        /\ (/\ ~IsPrefix(KnownPrefix(3), TokenDigits)
            /\ WindowCandidates = {}
            /\ ~Plausible(TokenDigits, 100)) => lastCall.out = None

\* the token of the scenario, -1234567819004132, decoded to 19004132: the
\* first eight digits after the prefix 12345678
C27_Witness ==
    /\ Decoded
    /\ lastCall.arg.s = ScenarioToken
    /\ lastCall.out = FloatVal(19004132, 0)
    /\ FirstCandidate = <<2, 1>>

\* the report of validate_extraction over the table of the extract call
\* before it, for a template of the catalog
ExtractValidated ==
    /\ lastCall.op = "validate_extraction"
    /\ lastCall.arg.of = "extract"
    /\ lastCall.arg.template \in DictKeys(_templates)
    /\ lastCall.out.raised = "none"

ExtractedTemplate == get_template(_templates, lastCall.arg.template)

\* the value extract assembled for a field
Extracted(field_name) == Get(lastCall.arg.record, field_name, None)

NullOrEmpty(value) == value = None \/ value = Str(<<>>)

RequiredFields ==
    {i \in 1..Len(ExtractedTemplate.fields) : Get(ExtractedTemplate.fields[i], "required", FALSE)}

IsVertical ==
    Get(Get(ExtractedTemplate, "output_format", EmptyDict), "include_line_codes", FALSE)

\* C28: validate_extraction over the table extract produced for the same
\* template reports a required-field error only for required fields whose
\* extracted value is null or empty, in both layouts: a vertical-layout
\* result in which every required field was extracted is valid.
C28_ErrorsOnlyForMissingValues ==
    ExtractValidated =>
        /\ \A j \in 1..Len(lastCall.out.val.errors) :
               \E i \in RequiredFields :
                   /\ ExtractedTemplate.fields[i].field_name = lastCall.out.val.errors[j].what
                   /\ NullOrEmpty(Extracted(lastCall.out.val.errors[j].what))
        /\ (IsVertical /\ \A i \in RequiredFields :
                              ~NullOrEmpty(Extracted(ExtractedTemplate.fields[i].field_name)))
               => lastCall.out.val.valid

\* a report of validate_extraction for a template of the catalog, over the
\* table of extract or of extract_batch
KnownValidated ==
    /\ lastCall.op = "validate_extraction"
    /\ lastCall.arg.template \in DictKeys(_templates)
    /\ lastCall.out.raised = "none"

\* the declared field names that are a column with a value that is not null
DeclaredWithValue ==
    {ExtractedTemplate.fields[i].field_name : i \in
        {k \in 1..Len(ExtractedTemplate.fields) :
            \E r \in 1..Len(lastCall.arg.results.rows) :
                /\ ExtractedTemplate.fields[k].field_name \in DOMAIN lastCall.arg.results.rows[r]
                /\ NotNa(lastCall.arg.results.rows[r][ExtractedTemplate.fields[k].field_name])}}

\* C29: in every report for a known template fields_extracted counts the
\* template-declared fields that hold a non-null value and nothing else, so
\* it lies between 0 and fields_total, for vertical-layout tables and for
\* batch tables with their _source_file column as for any other table.
C29_ExtractedWithinTotal ==
    KnownValidated =>
        /\ lastCall.out.val.fields_extracted = Cardinality(DeclaredWithValue)
        /\ 0 <= lastCall.out.val.fields_extracted
        /\ lastCall.out.val.fields_extracted <= lastCall.out.val.fields_total

(***************************************************************************)
(* Properties of _extract_fields over validated templates (SpecFields).    *)
(***************************************************************************)
\* the engine has run over a template that passes validation
ValidExtracted ==
    /\ lastCall.op = "_extract_fields"
    /\ validate_template(lastCall.arg.template) = <<>>
    /\ lastCall.out.raised = "none"

FieldsOfCall == lastCall.arg.template.fields

\* the patterns and the keywords a field declares
Declares(field_def) ==
    {Get(field_def, "regex_pattern", "")}
    \cup {Get(field_def, "fallback_patterns", <<>>)[k] :
             k \in 1..Len(Get(field_def, "fallback_patterns", <<>>))}
    \cup {Get(field_def, "keywords", <<>>)[k] : k \in 1..Len(Get(field_def, "keywords", <<>>))}

\* nothing the field declares is found in the text
NothingMatches(field_def) == Declares(field_def) \cap DOMAIN lastCall.arg.text = {}

\* C30: every extraction_method that validate_template accepts is dispatched
\* to a strategy: for every field of a template that passes validation, when
\* nothing matches, the record value is the coerced default_value, whatever
\* the accepted method; no accepted method yields null while a default_value
\* is declared.
C30_EveryAcceptedMethodDispatched ==
    ValidExtracted =>
        \A i \in 1..Len(FieldsOfCall) :
            /\ FieldsOfCall[i].extraction_method \in valid_methods
            /\ (NothingMatches(FieldsOfCall[i]) /\ "default_value" \in DOMAIN FieldsOfCall[i])
                   => /\ lastCall.out.data[FieldsOfCall[i].field_name] # None
                      /\ Returned(lastCall.out.data[FieldsOfCall[i].field_name])
                             = coerce_value(FieldsOfCall[i].default_value,
                                            FieldsOfCall[i].data_type)

====
